---------------------------- MODULE Spec2Model ----------------------------
(***************************************************************************)
(* The projectile subsystem of Warzone 2100 (src/src/projectile.cpp): the  *)
(* registry of live projectiles (psProjectileList, the first/next cursor,  *)
(* globalProjectileStorage), the per-projectile state machine              *)
(* (PROJECTILE::update and its three handlers), firing, and the damage     *)
(* bookkeeping on the objects of the world.                                *)
(*                                                                         *)
(* The world of the model is the line y = 0 of a small map with level      *)
(* ground at height 0: a position is its x coordinate, and a projectile    *)
(* has a height z as well.  One world unit is one tile, so the             *)
(* constants that the source takes from headers outside projectile.cpp     *)
(* (TILE_UNITS, ACC_GRAVITY) are given in that scale.  Collaborators whose *)
(* code is not in projectile.cpp (damage handlers, the spatial grid, the   *)
(* terrain oracle, the game clock) are modelled from their contracts.      *)
(***************************************************************************)
EXTENDS Integers, Sequences, FiniteSets

(***************************************************************************)
(* Bounds of the model.                                                    *)
(***************************************************************************)
\* The number of fire calls the model follows (penetration children come on top).
MaxFired == 2

\* The greatest height difference and the greatest flight speed the ballistics
\* are computed for.
MaxHeight == 4

MaxSpeed == 6

\* The far coordinate and the greatest target height collisions are computed for.
FarCoordinate == 50

MaxTargetHeight == 2
\* The last game tick (in ticks of TickLength) in which a fire call is followed.
LastFireTick == 1

(***************************************************************************)
(* Program constants.                                                      *)
(***************************************************************************)
GAME_TICKS_PER_SEC == 1000
\* World units per tile; the model's unit is the tile.
TILE_UNITS == 1
\* Gravity in world units/s^2, in the model's unit (GAME_TICKS_PER_SEC is a multiple of it).
ACC_GRAVITY == 8
\* 0xFFFFFFFF in the source: "no collision yet" / "no terrain hit"; larger than any time.
UINT32_MAX == 2147483647
PROJ_NEIGHBOUR_RANGE == TILE_UNITS * 4
\* The null pointer, for objects and for projectiles.
NULL == 0

(***************************************************************************)
(* Integer arithmetic as C++ does it.                                      *)
(***************************************************************************)
Abs(a) == IF a < 0 THEN -a ELSE a

Max(a, b) == IF a > b THEN a ELSE b

Min(a, b) == IF a < b THEN a ELSE b

\* a / b of C++: the quotient truncated towards zero.
CDiv(a, b) == IF (a < 0) = (b < 0) THEN Abs(a) \div Abs(b) ELSE -(Abs(a) \div Abs(b))

clip(x, lo, hi) == IF x < lo THEN lo ELSE IF x > hi THEN hi ELSE x

RECURSIVE SqrtFrom(_, _)
SqrtFrom(n, r) == IF (r + 1) * (r + 1) > n THEN r ELSE SqrtFrom(n, r + 1)

\* The integer square root, rounded down.
iSqrt(n) == SqrtFrom(n, 0)

\* The length of a horizontal vector; on the model's line it is exact.
iHypot(dx) == Abs(dx)

RECURSIVE SumSeq(_)
SumSeq(s) == IF s = <<>> THEN 0 ELSE Head(s) + SumSeq(Tail(s))

SeqToSet(s) == {s[i] : i \in DOMAIN s}

(***************************************************************************)
(* The world: the map, the objects and the weapon table.                   *)
(***************************************************************************)
\* Map width in tiles; worldOnMap(x, y) is 0 <= x < world_coord(mapWidth).
mapWidth == 8
\* The x coordinate at which the terrain rises into the line of flight.
TerrainWallX == 7
\* Length of one game tick in game time.
TickLength == 500

Objs == 1 .. 3

\* Object 1: a droid of player 0 (the attacker).  Object 2: a droid of player 1,
\* which moves.  Object 3: a structure of player 1.
objType(o) == IF o = 3 THEN "OBJ_STRUCTURE" ELSE "OBJ_DROID"

objPlayer(o) == IF o = 1 THEN 0 ELSE 1

\* Hit points of a new object.
OriginalBody == 2

\* Where object 2 can be: in front of the attacker, or behind it.
Droid2Positions == {4, 0}

InitialPos(o) == CASE o = 1 -> 2 [] o = 2 -> 4 [] OTHER -> 6

\* The weapons the world's objects fire, and the other weapons of the stats.
Weapons == 0 .. 4

EmpWeapons == {5, 6}

LongGun == 7

\* The laser satellite strike, which no object of the world fires.
LasSat == 8

\* An anti-aircraft gun, which no object of the world fires.
AntiAir == 9

\* asWeaponStats; the upgrade[player] values are the same for every player.
WeaponStats(n) ==
    CASE n = 0 -> \* a plain direct gun
        [movementModel |-> "MM_DIRECT", flightSpeed |-> 4, maxRange |-> 4,
         distanceExtensionFactor |-> 150, radius |-> 0, empRadius |-> 0,
         radiusLife |-> 0, periodicalDamageTime |-> 0, periodicalDamageRadius |-> 0,
         penetrate |-> FALSE, shootOnGround |-> TRUE, shootInAir |-> FALSE,
         noFriendlyFire |-> FALSE, weaponSubClass |-> "WSC_CANNON",
         damage |-> 1, radiusDamage |-> 0, periodicalDamage |-> 0]
      [] n = 1 -> \* a penetrating direct gun
        [movementModel |-> "MM_DIRECT", flightSpeed |-> 4, maxRange |-> 4,
         distanceExtensionFactor |-> 150, radius |-> 0, empRadius |-> 0,
         radiusLife |-> 0, periodicalDamageTime |-> 0, periodicalDamageRadius |-> 0,
         penetrate |-> TRUE, shootOnGround |-> TRUE, shootInAir |-> FALSE,
         noFriendlyFire |-> FALSE, weaponSubClass |-> "WSC_RAIL",
         damage |-> 1, radiusDamage |-> 0, periodicalDamage |-> 0]
      [] n = 2 -> \* an incendiary mortar: splash and periodical damage
        [movementModel |-> "MM_INDIRECT", flightSpeed |-> 4, maxRange |-> 4,
         distanceExtensionFactor |-> 150, radius |-> 2, empRadius |-> 0,
         radiusLife |-> 500, periodicalDamageTime |-> 1000, periodicalDamageRadius |-> 2,
         penetrate |-> FALSE, shootOnGround |-> TRUE, shootInAir |-> FALSE,
         noFriendlyFire |-> FALSE, weaponSubClass |-> "WSC_MORTARS",
         damage |-> 1, radiusDamage |-> 1, periodicalDamage |-> 1]
      [] n = 3 -> \* a homing missile
        [movementModel |-> "MM_HOMINGDIRECT", flightSpeed |-> 4, maxRange |-> 4,
         distanceExtensionFactor |-> 150, radius |-> 0, empRadius |-> 0,
         radiusLife |-> 0, periodicalDamageTime |-> 0, periodicalDamageRadius |-> 0,
         penetrate |-> FALSE, shootOnGround |-> TRUE, shootInAir |-> FALSE,
         noFriendlyFire |-> FALSE, weaponSubClass |-> "WSC_MISSILE",
         damage |-> 2, radiusDamage |-> 0, periodicalDamage |-> 0]
      [] n = 4 -> \* a howitzer with WEAPON_FLAG_NO_FRIENDLY_FIRE: splash only
        [movementModel |-> "MM_INDIRECT", flightSpeed |-> 4, maxRange |-> 4,
         distanceExtensionFactor |-> 150, radius |-> 2, empRadius |-> 0,
         radiusLife |-> 500, periodicalDamageTime |-> 0, periodicalDamageRadius |-> 0,
         penetrate |-> FALSE, shootOnGround |-> TRUE, shootInAir |-> FALSE,
         noFriendlyFire |-> TRUE, weaponSubClass |-> "WSC_HOWITZERS",
         damage |-> 1, radiusDamage |-> 1, periodicalDamage |-> 0]
      [] n = 5 -> \* an EMP cannon: an EMP radius, no splash radius
        [movementModel |-> "MM_DIRECT", flightSpeed |-> 4, maxRange |-> 4,
         distanceExtensionFactor |-> 150, radius |-> 0, empRadius |-> 2,
         radiusLife |-> 500, periodicalDamageTime |-> 0, periodicalDamageRadius |-> 0,
         penetrate |-> FALSE, shootOnGround |-> TRUE, shootInAir |-> FALSE,
         noFriendlyFire |-> FALSE, weaponSubClass |-> "WSC_EMP",
         damage |-> 1, radiusDamage |-> 1, periodicalDamage |-> 0]
      [] n = 6 -> \* an EMP mortar: an EMP radius and a splash radius
        [movementModel |-> "MM_INDIRECT", flightSpeed |-> 4, maxRange |-> 4,
         distanceExtensionFactor |-> 150, radius |-> 2, empRadius |-> 2,
         radiusLife |-> 500, periodicalDamageTime |-> 0, periodicalDamageRadius |-> 0,
         penetrate |-> FALSE, shootOnGround |-> TRUE, shootInAir |-> FALSE,
         noFriendlyFire |-> FALSE, weaponSubClass |-> "WSC_EMP",
         damage |-> 1, radiusDamage |-> 1, periodicalDamage |-> 0]
      [] n = 8 -> \* the laser satellite strike
        [movementModel |-> "MM_DIRECT", flightSpeed |-> 4, maxRange |-> 4,
         distanceExtensionFactor |-> 150, radius |-> 0, empRadius |-> 0,
         radiusLife |-> 0, periodicalDamageTime |-> 0, periodicalDamageRadius |-> 0,
         penetrate |-> FALSE, shootOnGround |-> TRUE, shootInAir |-> FALSE,
         noFriendlyFire |-> FALSE, weaponSubClass |-> "WSC_LAS_SAT",
         damage |-> 1, radiusDamage |-> 0, periodicalDamage |-> 0]
      [] n = 9 -> \* an anti-aircraft gun: it cannot shoot on ground
        [movementModel |-> "MM_DIRECT", flightSpeed |-> 4, maxRange |-> 4,
         distanceExtensionFactor |-> 150, radius |-> 0, empRadius |-> 0,
         radiusLife |-> 0, periodicalDamageTime |-> 0, periodicalDamageRadius |-> 0,
         penetrate |-> FALSE, shootOnGround |-> FALSE, shootInAir |-> TRUE,
         noFriendlyFire |-> FALSE, weaponSubClass |-> "WSC_AAGUN",
         damage |-> 1, radiusDamage |-> 0, periodicalDamage |-> 0]
      [] OTHER -> \* a fast penetrating gun whose long range is no multiple of 4
        [movementModel |-> "MM_DIRECT", flightSpeed |-> 6, maxRange |-> 5,
         distanceExtensionFactor |-> 150, radius |-> 0, empRadius |-> 0,
         radiusLife |-> 0, periodicalDamageTime |-> 0, periodicalDamageRadius |-> 0,
         penetrate |-> TRUE, shootOnGround |-> TRUE, shootInAir |-> FALSE,
         noFriendlyFire |-> FALSE, weaponSubClass |-> "WSC_RAIL",
         damage |-> 1, radiusDamage |-> 0, periodicalDamage |-> 0]


\* asWeaponStats.size(): a larger nStat is an invalid weapon index.
NumWeaponStats == Cardinality(Weapons \cup EmpWeapons \cup {LongGun, LasSat, AntiAir})

proj_Direct(n) == WeaponStats(n).movementModel \in {"MM_DIRECT", "MM_HOMINGDIRECT"}

proj_GetLongRange(n, player) == WeaponStats(n).maxRange

\* Storage cells of globalProjectileStorage: a cell is the stable address of a
\* projectile.  Every fired projectile can spawn one child per droid.
Slots == 1 .. (MaxFired * 3)

\* The content of a free storage cell.
NoProjectile == [id |-> 0]

(***************************************************************************)
(* The state of the program.                                               *)
(***************************************************************************)
VARIABLES
    gameTime,                      \* the game clock
    deltaGameTime,                 \* the length of the current tick
    updated,                       \* proj_UpdateAll has run in the current tick
    gameRandState,                 \* the state of the synchronised random generator
    objects,                       \* the BASE_OBJECTs of the world, by object
    globalProjectileStorage,       \* cell -> the PROJECTILE stored there
    psProjectileList,              \* the list of projectiles in play (cells)
    psProjectileNext,              \* the first/next cursor: an index into the list
    projectileTrackerIDIncrement,  \* the id counter
    ret,                           \* what the last operation returned
    trace,                         \* what the last operation did, in order
    fired,                         \* the number of projectiles fired so far
    enumerated,                    \* what proj_GetFirst/proj_GetNext have returned
    twin                           \* a second run of the same calls

vars == <<gameTime, deltaGameTime, updated, gameRandState, objects,
          globalProjectileStorage, psProjectileList, psProjectileNext,
          projectileTrackerIDIncrement, ret, trace, fired, enumerated, twin>>

\* The part of the state the projectile code reads and writes, as one value
\* that the operators below take and return.
World == [st |-> globalProjectileStorage, ob |-> objects,
          trk |-> projectileTrackerIDIncrement, rnd |-> gameRandState,
          tr |-> <<>>, ret |-> NULL, rel |-> 0, alloc |-> "low"]

isDead(w, o) == w.ob[o].died

\* aiCheckAlliances: no alliances are formed, a player is allied with itself only.
aiCheckAlliances(p1, p2) == p1 = p2

worldOnMap(x) == x >= 0 /\ x < mapWidth * TILE_UNITS

\* gameRand(n) on a generator with two states: 0, then the middle of the range.
gameRand(w, n) == IF w.rnd = 0 THEN 0 ELSE n \div 2

gameRandNext(w) == [w EXCEPT !.rnd = 1 - @]

Emit(w, e) == [w EXCEPT !.tr = Append(@, e)]

FreeSlots(w) == {s \in Slots : w.st[s] = NoProjectile}

\* PagedEntityContainer::emplace: the new element gets a free cell, a cell of
\* an erased element included.
EmplaceSlot(w) ==
    IF w.alloc = "low"
    THEN CHOOSE s \in FreeSlots(w) : \A t \in FreeSlots(w) : s <= t
    ELSE CHOOSE s \in FreeSlots(w) : \A t \in FreeSlots(w) : s >= t

aiObjectAddExpectedDamage(ob, o, damage, isDirect) ==
    IF o = NULL THEN ob
    ELSE IF isDirect THEN [ob EXCEPT ![o].expectedDamageDirect = @ + damage]
    ELSE [ob EXCEPT ![o].expectedDamageIndirect = @ + damage]

objGuessFutureDamage(n, player, psTarget) ==
    IF psTarget = NULL THEN 0 ELSE WeaponStats(n).damage

setProjectileDestination(w, s, psObj) ==
    LET p == w.st[s]
        bDirect == proj_Direct(p.psWStats)
        ob1 == aiObjectAddExpectedDamage(w.ob, p.psDest, -p.expectedDamageCaused, bDirect)
        ob2 == aiObjectAddExpectedDamage(ob1, psObj, p.expectedDamageCaused, bDirect)
    IN  [w EXCEPT !.st[s].psDest = psObj, !.ob = ob2]

\* setProjectileSource: a spawned projectile takes the live source of its parent.
setProjectileSource(w, attacker) ==
    CASE attacker.kind = "none" -> NULL
      [] attacker.kind = "proj" ->
            LET src == w.st[attacker.ref].psSource
            IN  IF src # NULL /\ ~isDead(w, src) THEN src ELSE NULL
      [] OTHER -> attacker.ref

randomVariation(w, val) == CDiv(val * (95000 + gameRand(w, 10001)), 100000)

RECURSIVE SqrtBetween(_, _, _)
SqrtBetween(n, lo, hi) ==
    IF lo >= hi THEN lo
    ELSE LET mid == (lo + hi + 1) \div 2
         IN  IF mid * mid <= n THEN SqrtBetween(n, mid, hi) ELSE SqrtBetween(n, lo, mid - 1)

\* i64Sqrt takes a uint64_t: a negative argument wraps to a huge value, whose
\* root exceeds every flight time of the model.
i64Sqrt(n) == IF n < 0 THEN 46340 ELSE SqrtBetween(n, 0, 46340)

DEG45 == 8192

\* iAtan2(s, c) for s >= 0 and c >= 0, to the precision the comparisons with
\* the angles 0 and DEG45 need: exact on the axes and on the diagonal, the
\* middle of the octant elsewhere.
iAtan2(s, c) ==
    IF s = 0 THEN 0
    ELSE IF c = 0 THEN 2 * DEG45
    ELSE IF s = c THEN DEG45
    ELSE IF s < c THEN DEG45 \div 2
    ELSE DEG45 + DEG45 \div 2

\* mytan = iSin(min_angle) * 65536 / iCos(min_angle), for the angles 0 and
\* DEG45 (where iSin and iCos are equal).
MinAngleTan(min_angle) == IF min_angle = DEG45 THEN 65536 ELSE 0

\* projCalcIndirectVelocities up to the first assignment of vx and vz.
IndirectBallistic(w, dx, dz, v) ==
    LET g == ACC_GRAVITY
        a0 == randomVariation(w, v * v) - dz * g
        b == g * g * (dx * dx + dz * dz)
        c0 == a0 * a0 - b
        a == IF c0 < 0 THEN i64Sqrt(b) + 1 ELSE a0
        c == IF c0 < 0 THEN a * a - b ELSE c0
        t == Max(1, iSqrt(2 * (a - i64Sqrt(c))) * (GAME_TICKS_PER_SEC \div g))
    IN  [vx |-> CDiv(dx * GAME_TICKS_PER_SEC, t),
         vz |-> CDiv(dz * GAME_TICKS_PER_SEC, t) + CDiv(g * t, 2 * GAME_TICKS_PER_SEC),
         t |-> t]

\* The branch for a shot that would start downwards: it is fired level.
IndirectLevel(r, dx, dz) ==
    IF r.vz < 0
    THEN LET t == Max(1, i64Sqrt(CDiv(-2 * dz * GAME_TICKS_PER_SEC * GAME_TICKS_PER_SEC,
                                      ACC_GRAVITY)))
         IN  [vx |-> CDiv(dx * GAME_TICKS_PER_SEC, t), vz |-> 0, t |-> t]
    ELSE r

\* The branch for min_angle without its new flight time.
IndirectMinAngle_KeepTime(r, dx, dz, min_angle) ==
    IF iAtan2(r.vz, r.vx) < min_angle
    THEN [vx |-> r.vx, vz |-> CDiv(MinAngleTan(min_angle) * r.vx, 65536), t |-> r.t]
    ELSE r

\* The branch for a shot flatter than min_angle: it is fired at min_angle.
\* 2 * (dx * mytan - dz * 65536) * TPS * TPS / (g * 65536) is computed in 64
\* bits; mytan is a multiple of 65536 here, which is divided out first.
IndirectMinAngle(r, dx, dz, min_angle) ==
    IF iAtan2(r.vz, r.vx) < min_angle
    THEN LET mytan == MinAngleTan(min_angle)
             t == Max(1, i64Sqrt(CDiv(2 * (dx * (mytan \div 65536) - dz)
                                        * GAME_TICKS_PER_SEC * GAME_TICKS_PER_SEC,
                                      ACC_GRAVITY)))
             vx == CDiv(dx * GAME_TICKS_PER_SEC, t)
         IN  [vx |-> vx, vz |-> CDiv(mytan * vx, 65536), t |-> t]
    ELSE r

\* projCalcIndirectVelocities: the velocities vx and vz and the flight time t.
projCalcIndirectVelocities(w, dx, dz, v, min_angle) ==
    IndirectMinAngle(IndirectLevel(IndirectBallistic(w, dx, dz, v), dx, dz),
                     dx, dz, min_angle)

NoAttacker == [kind |-> "none", ref |-> NULL]

\* proj_SendProjectileAngledInternal; w.ret is the new projectile's cell, or NULL.
proj_SendProjectileAngledInternal(w, nStat, attacker, player, target, psTarget, fireTime) ==
    IF nStat >= NumWeaponStats THEN [w EXCEPT !.ret = NULL]
    ELSE IF psTarget # NULL /\ isDead(w, psTarget) THEN [w EXCEPT !.ret = NULL]
    ELSE
      LET s == EmplaceSlot(w)
          isChild == attacker.kind = "proj"
          old == w.st[attacker.ref]
          muzzle == CASE attacker.kind = "none" -> target
                      [] attacker.kind = "proj" -> old.pos
                      [] OTHER -> w.ob[attacker.ref].pos
          srcFinal == IF isChild THEN old.src ELSE muzzle
          \* gameRand is drawn for the aim height of a shot at an object
          w1 == IF psTarget # NULL THEN gameRandNext(w) ELSE w
          dist == iHypot(target - srcFinal)
          indirect == ~proj_Direct(nStat)
          vel == projCalcIndirectVelocities(w1, dist, 0, WeaponStats(nStat).flightSpeed, 0)
          w2 == IF indirect THEN gameRandNext(w1) ELSE w1
          prevTime0 == IF isChild THEN old.time ELSE fireTime
          proj == [id |-> w.trk + 1,
                   player |-> player,
                   psWStats |-> nStat,
                   state |-> "PROJ_INFLIGHT",
                   born |-> IF isChild THEN old.born ELSE fireTime,
                   time |-> IF isChild THEN gameTime ELSE fireTime,
                   prevSpacetime |->
                       [pos |-> muzzle,
                        z |-> IF isChild THEN old.z ELSE 0,
                        time |-> IF isChild /\ prevTime0 = gameTime
                                 THEN prevTime0 - 1 ELSE prevTime0],
                   pos |-> muzzle,
                   z |-> IF isChild THEN old.z ELSE 0,
                   src |-> srcFinal,
                   dst |-> target,
                   psSource |-> setProjectileSource(w, attacker),
                   psDest |-> NULL,
                   psDamaged |-> IF isChild THEN old.psDamaged ELSE <<>>,
                   expectedDamageCaused |-> objGuessFutureDamage(nStat, player, psTarget),
                   died |-> 0,
                   vXY |-> IF indirect THEN vel.vx ELSE 0,
                   vZ |-> IF indirect THEN vel.vz ELSE 0]
          w3 == [w2 EXCEPT !.trk = @ + 1, !.st[s] = proj, !.ret = s]
      IN  setProjectileDestination(w3, s, psTarget)

\* The bug of giving out the tracker id before the arguments are checked.
proj_SendProjectileInternal_CountFirst(w, nStat, attacker, player, target, psTarget) ==
    proj_SendProjectileAngledInternal([w EXCEPT !.trk = @ + 1], nStat, attacker, player,
                                      target, psTarget, gameTime - 1)

proj_SendProjectileInternal(w, nStat, attacker, player, target, psTarget) ==
    proj_SendProjectileAngledInternal(w, nStat, attacker, player, target, psTarget, gameTime - 1)


(***************************************************************************)
(* Collision geometry.  Vectors are records [x, y, z].                     *)
(***************************************************************************)
Vec(x, z) == [x |-> x, y |-> 0, z |-> z]

EmptyInterval == [begin |-> -1, end |-> -1]

FullInterval == [begin |-> 0, end |-> 1024]

intervalIntersection(i1, i2) == [begin |-> Max(i1.begin, i2.begin), end |-> Min(i1.end, i2.end)]

intervalEmpty(i) == i.begin >= i.end

collisionZ(z1in, z2in, height) ==
    LET z1 == IF z1in > z2in THEN -z1in ELSE z1in
        z2 == IF z1in > z2in THEN -z2in ELSE z2in
    IN  IF z1 > height \/ z2 < -height THEN EmptyInterval
        ELSE IF z1 = z2
             THEN (IF z1 >= -height /\ z1 <= height THEN FullInterval ELSE EmptyInterval)
        ELSE [begin |-> CDiv(1024 * (-height - z1), z2 - z1),
              end |-> CDiv(1024 * (height - z1), z2 - z1)]

collisionXY(x1, y1, x2, y2, radius) ==
    LET dx == x2 - x1
        dy == y2 - y1
        a == dx * dx + dy * dy
        b == x1 * dx + y1 * dy
        c == x1 * x1 + y1 * y1 - radius * radius
        d == b * b - a * c
        sd == i64Sqrt(d)
    IN  IF d < 0 THEN EmptyInterval
        ELSE IF a = 0 THEN (IF c < 0 THEN FullInterval ELSE EmptyInterval)
        ELSE [begin |-> Max(0, CDiv(1024 * (-b - sd), a)),
              end |-> Min(1024, CDiv(1024 * (-b + sd), a))]

collisionXYZ(v1, v2, shape, height) ==
    LET iz == collisionZ(v1.z, v2.z, height)
        ix == intervalIntersection(iz, collisionZ(v1.x, v2.x, shape.size.x))
        ixy == IF intervalEmpty(ix) THEN ix
               ELSE intervalIntersection(ix, collisionZ(v1.y, v2.y, shape.size.y))
        ic == intervalIntersection(iz, collisionXY(v1.x, v1.y, v2.x, v2.y, shape.radius))
        i == IF shape.isRectangular THEN ixy ELSE ic
    IN  IF intervalEmpty(iz) THEN -1
        ELSE IF intervalEmpty(i) THEN -1
        ELSE Max(0, i.begin)

\* establishTargetShape: droids are circular (twice the radius of their model),
\* structures rectangular (half their size in world units).
establishTargetShape(o) ==
    IF objType(o) = "OBJ_DROID"
    THEN [isRectangular |-> FALSE, radius |-> 1, size |-> [x |-> 1, y |-> 1]]
    ELSE [isRectangular |-> TRUE, radius |-> 1, size |-> [x |-> 1, y |-> 1]]

establishTargetHeight(o) == IF o = NULL THEN 0 ELSE 1

(***************************************************************************)
(* Collaborators of the flight code.                                       *)
(***************************************************************************)
ObjectOrder == <<1, 2, 3>>

\* gridStartIterate: the objects within the radius of x, in the grid's order.
gridStartIterate(w, x, radius) ==
    SelectSeq(ObjectOrder, LAMBDA o : Abs(w.ob[o].pos - x) <= radius)

\* map_LineIntersect: where in [0, tMax] the segment from (a, az) to (b, bz)
\* meets the terrain, or UINT32_MAX.  The ground is at height 0, and the
\* terrain rises into the line of flight at TerrainWallX.
map_LineIntersect(a, az, b, bz, tMax) ==
    LET wall == IF a >= TerrainWallX THEN 0
                ELSE IF b >= TerrainWallX THEN CDiv(tMax * (TerrainWallX - a), b - a)
                ELSE UINT32_MAX
        ground == IF az < 0 THEN 0
                  ELSE IF bz < 0 THEN CDiv(tMax * az, az - bz)
                  ELSE UINT32_MAX
    IN  Min(wall, ground)

\* interpolateObjectSpacetime for a projectile: its position at time t between
\* its previous sample and its current one.
interpolateObjectSpacetime(p, t) ==
    [pos |-> p.prevSpacetime.pos
             + CDiv((p.pos - p.prevSpacetime.pos) * (t - p.prevSpacetime.time),
                    p.time - p.prevSpacetime.time),
     z |-> p.prevSpacetime.z
           + CDiv((p.z - p.prevSpacetime.z) * (t - p.prevSpacetime.time),
                  p.time - p.prevSpacetime.time),
     time |-> t]

quantiseFraction(numerator, denominator, futureTime, currentTime) ==
    ((futureTime * numerator) \div denominator) - ((currentTime * numerator) \div denominator)


(***************************************************************************)
(* proj_InFlightFunc.                                                      *)
(***************************************************************************)
\* No droid of the model's world is a VTOL, and every feature is damageable.
isFlying(o) == FALSE

objDamageable(o) == TRUE

\* The bug of a scan that passes over no ally, intended or not.
ScanSkips_HitsAllies(w, p, o) ==
    \/ o \in SeqToSet(p.psDamaged)
    \/ isDead(w, o)
    \/ (objType(o) = "OBJ_FEATURE" /\ ~objDamageable(o))
    \/ (/\ ~WeaponStats(p.psWStats).shootOnGround
        /\ \/ objType(o) \in {"OBJ_STRUCTURE", "OBJ_FEATURE"}
           \/ (objType(o) = "OBJ_DROID" /\ ~isFlying(o)))

\* The bug of a scan that forgets the list of the objects already damaged.
ScanSkips_NoDamagedCheck(w, p, o) ==
    \/ isDead(w, o)
    \/ (objType(o) = "OBJ_FEATURE" /\ ~objDamageable(o))
    \/ (aiCheckAlliances(objPlayer(o), p.player) /\ o # p.psDest)
    \/ (/\ ~WeaponStats(p.psWStats).shootOnGround
        /\ \/ objType(o) \in {"OBJ_STRUCTURE", "OBJ_FEATURE"}
           \/ (objType(o) = "OBJ_DROID" /\ ~isFlying(o)))

\* The bug of a scan that does not pass over dead objects.
ScanSkips_HitsDead(w, p, o) ==
    \/ o \in SeqToSet(p.psDamaged)
    \/ (objType(o) = "OBJ_FEATURE" /\ ~objDamageable(o))
    \/ (aiCheckAlliances(objPlayer(o), p.player) /\ o # p.psDest)
    \/ (/\ ~WeaponStats(p.psWStats).shootOnGround
        /\ \/ objType(o) \in {"OBJ_STRUCTURE", "OBJ_FEATURE"}
           \/ (objType(o) = "OBJ_DROID" /\ ~isFlying(o)))

\* The objects the collision scan passes over (the chain of `continue`s).
ScanSkips(w, p, o) ==
    \/ o \in SeqToSet(p.psDamaged)
    \/ isDead(w, o)
    \/ (objType(o) = "OBJ_FEATURE" /\ ~objDamageable(o))
    \/ (aiCheckAlliances(objPlayer(o), p.player) /\ o # p.psDest)
    \/ (/\ ~WeaponStats(p.psWStats).shootOnGround
        /\ \/ objType(o) \in {"OBJ_STRUCTURE", "OBJ_FEATURE"}
           \/ (objType(o) = "OBJ_DROID" /\ ~isFlying(o)))

\* The collision of projectile p with object o in this tick: -1 or 0..1023.
ObjectCollision(w, p, o) ==
    LET psTempObjPrevPos == IF objType(o) = "OBJ_DROID" THEN w.ob[o].prevPos ELSE w.ob[o].pos
        diff == Vec(p.pos - w.ob[o].pos, p.z)
        prevDiff == Vec(p.prevSpacetime.pos - psTempObjPrevPos, p.prevSpacetime.z)
    IN  collisionXYZ(prevDiff, diff, establishTargetShape(o), establishTargetHeight(o))

\* The bug of a scan in which the last of the objects hit at the same time wins.
ScanCollision_LastWins(p, o, collision, closest) ==
    LET collisionTime == p.prevSpacetime.time
                         + CDiv((p.time - p.prevSpacetime.time) * collision, 1024)
    IN  IF collision >= 0 /\ collisionTime <= closest.time
        THEN [time |-> collisionTime, obj |-> o]
        ELSE closest

\* One object of the scan that is not passed over: closest is [time, obj].
ScanCollision(p, o, collision, closest) ==
    LET collisionTime == p.prevSpacetime.time
                         + CDiv((p.time - p.prevSpacetime.time) * collision, 1024)
    IN  IF collision >= 0 /\ collisionTime < closest.time
        THEN [time |-> collisionTime, obj |-> o]
        ELSE closest

ScanObject(w, p, o, closest) ==
    IF ScanSkips(w, p, o) THEN closest
    ELSE ScanCollision(p, o, ObjectCollision(w, p, o), closest)

\* The scan loop: closest is the closest collision found so far.
RECURSIVE CollisionScan(_, _, _, _)
CollisionScan(w, p, gridList, closest) ==
    IF gridList = <<>> THEN closest
    ELSE CollisionScan(w, p, Tail(gridList), ScanObject(w, p, Head(gridList), closest))

\* The terrain check after the scan.
TerrainCheck(p, closest) ==
    LET terrainIntersectTime ==
            map_LineIntersect(p.prevSpacetime.pos, p.prevSpacetime.z, p.pos, p.z,
                              p.time - p.prevSpacetime.time)
        collisionTime == p.prevSpacetime.time + terrainIntersectTime
    IN  IF terrainIntersectTime # UINT32_MAX /\ collisionTime < closest.time
        THEN [time |-> collisionTime, obj |-> NULL]
        ELSE closest

\* The movement step of the projectile's movement model: the moved projectile
\* and the distance travelled so far.
MoveProjectile(w, p, timeSoFar) ==
    LET stats == WeaponStats(p.psWStats)
    IN  CASE stats.movementModel = "MM_DIRECT" ->
               LET delta == p.dst - p.src
                   targetDistance == Max(iHypot(delta), 1)
                   currentDistance == CDiv(timeSoFar * stats.flightSpeed, GAME_TICKS_PER_SEC)
               IN  [p |-> [p EXCEPT !.pos = p.src + CDiv(delta * currentDistance, targetDistance)],
                    currentDistance |-> currentDistance]
          [] stats.movementModel = "MM_INDIRECT" ->
               LET delta == p.dst - p.src
                   targetDistance == Max(iHypot(delta), 1)
                   deltaZ == CDiv((p.vZ - CDiv(timeSoFar * ACC_GRAVITY,
                                               GAME_TICKS_PER_SEC * 2)) * timeSoFar,
                                  GAME_TICKS_PER_SEC)
                   currentDistance == CDiv(timeSoFar * p.vXY, GAME_TICKS_PER_SEC)
               IN  [p |-> [p EXCEPT !.pos = p.src + CDiv(delta * currentDistance, targetDistance),
                                    !.z = deltaZ],
                    currentDistance |-> currentDistance]
          [] OTHER -> \* MM_HOMINGDIRECT; the droids of the world have sMove.speed 0
               LET dst1 == IF p.psDest # NULL
                           THEN clip(w.ob[p.psDest].pos, 0, mapWidth * TILE_UNITS - 1)
                           ELSE p.dst
                   delta == dst1 - p.pos
                   targetDistance == Max(iHypot(delta), 1)
                   dst2 == IF p.psDest = NULL /\ targetDistance < 10000
                           THEN p.pos + delta * 10 ELSE dst1
                   currentDistance == CDiv(timeSoFar * stats.flightSpeed, GAME_TICKS_PER_SEC)
                   step == quantiseFraction(delta * stats.flightSpeed,
                                            GAME_TICKS_PER_SEC * targetDistance,
                                            p.time, p.prevSpacetime.time)
               IN  [p |-> [p EXCEPT !.dst = dst2, !.pos = p.pos + step],
                    currentDistance |-> currentDistance]

\* The bug of a penetration that goes through structures too.
Penetrates_AnyObject(p, closestCollisionObject, currentDistance) ==
    /\ closestCollisionObject # NULL
    /\ WeaponStats(p.psWStats).penetrate
    /\ currentDistance < (5 * proj_GetLongRange(p.psWStats, p.player)) \div 4

\* Whether a hit on closestCollisionObject spawns a penetration child.
Penetrates(p, closestCollisionObject, currentDistance) ==
    /\ closestCollisionObject # NULL
    /\ objType(closestCollisionObject) = "OBJ_DROID"
    /\ WeaponStats(p.psWStats).penetrate
    /\ currentDistance < (5 * proj_GetLongRange(p.psWStats, p.player)) \div 4

\* The spawn of a penetration: the object hit is taken as damaged, and a new
\* projectile goes on from the parent towards the parent's target point.
InFlightSpawned(w, parent) == Emit(w, <<"spawn", w.st[w.ret].id, parent>>)

\* The bug of a child that is sent before the droid struck is on the list.
InFlightSpawn_NoAppend(w, s, p, obj) ==
    InFlightSpawned(
        proj_SendProjectileInternal(w, p.psWStats, [kind |-> "proj", ref |-> s],
                                    p.player, p.dst, NULL),
        p.id)

InFlightSpawn(w, s, p, obj) ==
    InFlightSpawned(
        proj_SendProjectileInternal([w EXCEPT !.st[s].psDamaged = Append(@, obj)],
                                    p.psWStats, [kind |-> "proj", ref |-> s],
                                    p.player, p.dst, NULL),
        p.id)

\* The hit branch once the projectile is at the collision instant and retargeted.
InFlightHitDest(w, s, p, obj, currentDistance) ==
    IF Penetrates(p, obj, currentDistance)
    THEN [InFlightSpawn(w, s, p, obj) EXCEPT !.st[s].state = "PROJ_IMPACT"]
    ELSE [w EXCEPT !.st[s].state = "PROJ_IMPACT", !.ret = NULL]

\* The bug of a hit whose time is not brought into the tick.
InFlightHit_NoClamp(w, s, p, closest, currentDistance) ==
    LET st == interpolateObjectSpacetime(p, closest.time)
        p1 == [p EXCEPT !.pos = st.pos, !.z = st.z, !.time = st.time,
                        !.prevSpacetime.time = IF st.time = @ THEN @ - 1 ELSE @]
    IN  InFlightHitDest(setProjectileDestination([w EXCEPT !.st[s] = p1], s, closest.obj),
                        s, p, closest.obj, currentDistance)

\* The hit branch: snap to the collision instant, retarget, spawn, go to IMPACT.
InFlightHit(w, s, p, closest, currentDistance) ==
    LET st == interpolateObjectSpacetime(p, closest.time)
        time1 == Max(st.time, gameTime - deltaGameTime + 1)
        p1 == [p EXCEPT !.pos = st.pos, !.z = st.z, !.time = time1,
                        !.prevSpacetime.time = IF time1 = @ THEN @ - 1 ELSE @]
    IN  InFlightHitDest(setProjectileDestination([w EXCEPT !.st[s] = p1], s, closest.obj),
                        s, p, closest.obj, currentDistance)

\* The bug of ending the flight at the long range, not at the extended one.
RangeExceeded_NoExtension(p, currentDistance) ==
    currentDistance >= proj_GetLongRange(p.psWStats, p.player)

\* The bug of a flight that goes on at exactly the extended long range.
RangeExceeded_Strict(p, currentDistance) ==
    currentDistance * 100
        > proj_GetLongRange(p.psWStats, p.player) * WeaponStats(p.psWStats).distanceExtensionFactor

\* Whether the projectile has travelled its maximum range.
\* The bug of a flight that no range ends.
RangeExceeded_Never(p, currentDistance) == FALSE

\* The projectile has flown past its weapon's extended long range (lines 961-967).
RangeExceeded(p, currentDistance) ==
    currentDistance * 100
        >= proj_GetLongRange(p.psWStats, p.player) * WeaponStats(p.psWStats).distanceExtensionFactor

\* The closest collision of the moved projectile p with an object or the terrain.
ClosestCollision(w, p) ==
    TerrainCheck(p, CollisionScan(w, p, gridStartIterate(w, p.pos, PROJ_NEIGHBOUR_RANGE),
                                  [time |-> UINT32_MAX, obj |-> NULL]))

\* What follows the scan: a hit, the end of the range, or the flight going on.
InFlightOutcome(w, s, p, currentDistance, closest) ==
    IF closest.time # UINT32_MAX
    THEN InFlightHit(w, s, p, closest, currentDistance)
    ELSE IF RangeExceeded(p, currentDistance)
         THEN [setProjectileDestination([w EXCEPT !.st[s] = [p EXCEPT !.state = "PROJ_IMPACT"]],
                                        s, NULL)
               EXCEPT !.ret = NULL]
    ELSE [w EXCEPT !.st[s] = p, !.ret = NULL]

InFlightMoved(w, s, m) ==
    InFlightOutcome(w, s, m.p, m.currentDistance, ClosestCollision(w, m.p))

\* The game of the world is a single player game.
bMultiPlayer == FALSE

\* The seconds of game time a Las-Sat strike waits in a multiplayer game.
LAS_SAT_DELAY == 4

\* The bug of a Las-Sat delay that applies in single player games too.
LasSatDelayed_AnyMode(multiPlayer, p) ==
    /\ WeaponStats(p.psWStats).weaponSubClass = "WSC_LAS_SAT"
    /\ gameTime - p.born >= 0
    /\ gameTime - p.born < LAS_SAT_DELAY * GAME_TICKS_PER_SEC

\* The test of lines 761-762; a negative timeSoFar is a large unsigned number.
LasSatDelayed(multiPlayer, p) ==
    /\ multiPlayer
    /\ WeaponStats(p.psWStats).weaponSubClass = "WSC_LAS_SAT"
    /\ gameTime - p.born >= 0
    /\ gameTime - p.born < LAS_SAT_DELAY * GAME_TICKS_PER_SEC

\* proj_InFlightFunc in a game that is, or is not, a multiplayer game.
InFlightIn(multiPlayer, w, s) ==
    IF LasSatDelayed(multiPlayer, w.st[s])
    THEN [w EXCEPT !.st[s].time = gameTime, !.ret = NULL]
    ELSE InFlightMoved(w, s, MoveProjectile(w, [w.st[s] EXCEPT !.time = gameTime],
                                            gameTime - w.st[s].born))

\* proj_InFlightFunc; w.ret is the spawned projectile's cell, or NULL.
proj_InFlightFunc(w, s) == InFlightIn(bMultiPlayer, w, s)


(***************************************************************************)
(* Damage.                                                                 *)
(***************************************************************************)
\* calcDamage with every weapon-effect modifier at 100%.
calcDamage(baseDamage, psTarget) == IF baseDamage = 0 THEN 0 ELSE Max(baseDamage, 1)

\* droidDamage / structureDamage / featureDamage: the damage is clipped to the
\* remaining hit points; w.rel is the damage relative to the original hit
\* points, negative when the hit destroyed the object.
objectDamageDispatch(w, psDest, damage) ==
    LET body == w.ob[psDest].body
        actual == Min(damage, body)
        destroyed == actual > 0 /\ actual = body
        relative == (100 * actual) \div OriginalBody
        \* the object's destruction is noted in the trace
        w1 == IF destroyed THEN Emit(w, <<"destroyed", psDest>>) ELSE w
    IN  [w1 EXCEPT !.ob[psDest].body = body - actual,
                   !.ob[psDest].died = @ \/ destroyed,
                   !.rel = IF destroyed /\ objType(psDest) # "OBJ_FEATURE"
                           THEN -relative ELSE relative]

isFeature(o) == o # NULL /\ objType(o) = "OBJ_FEATURE"

\* experienceGain[player], in percent.
getExpGain(player) == 100

\* Both look at the projectile's destination, not at the object damaged.
isFriendlyFire(p) == p.psDest # NULL /\ objPlayer(p.psSource) = objPlayer(p.psDest)

shouldIncreaseExperience(p) == p.psSource # NULL /\ ~isFeature(p.psDest) /\ ~isFriendlyFire(p)

\* proj_UpdateExperience: the droid that fired gains the experience; a
\* structure's goes to its designator, and the world has no commander.  The
\* event names the projectile, the droid, the object damaged and the gain.
proj_UpdateExperience(w, p, psDest, experienceInc) ==
    IF objType(p.psSource) = "OBJ_DROID"
    THEN Emit(w, <<"experience", p.id, p.psSource, psDest, experienceInc>>)
    ELSE w

\* updateKills: a droid that fired counts the kill.
\* Droid 1 is in the group of a commander, a droid that stays off the map;
\* no structure has a designator.
hasCommander(o) == o = 1

psCommander == Cardinality(Objs) + 1

\* The bug of a kill that is counted twice for the source droid.
updateKills_Twice(w, p, psDest) ==
    IF objType(p.psSource) = "OBJ_DROID"
    THEN Emit(Emit(w, <<"kill", p.id, p.psSource, psDest>>),
              <<"kill", p.id, p.psSource, psDest>>)
    ELSE w

\* Each "kill" event is one increment of the kill counter of the droid named.
updateKillsCommander(w, p, psDest) ==
    IF hasCommander(p.psSource) THEN Emit(w, <<"kill", p.id, psCommander, psDest>>) ELSE w

updateKills(w, p, psDest) ==
    IF objType(p.psSource) = "OBJ_DROID"
    THEN updateKillsCommander(Emit(w, <<"kill", p.id, p.psSource, psDest>>), p, psDest)
    ELSE w

\* objectDamage after the dispatch: w.rel is the relative damage.
ObjectDamaged(w, p, psDest) ==
    IF shouldIncreaseExperience(p)
    THEN LET inc == CDiv(Abs(w.rel) * getExpGain(objPlayer(p.psSource)), 100)
         IN  IF w.rel < 0
             THEN updateKills(proj_UpdateExperience(w, p, psDest, inc), p, psDest)
             ELSE proj_UpdateExperience(w, p, psDest, inc)
    ELSE w

\* objectDamage: dispatch the damage; kind names the caller for the trace.
objectDamage(w, s, psDest, damage, kind) ==
    ObjectDamaged(objectDamageDispatch(Emit(w, <<"damage", w.st[s].id, psDest, kind>>),
                                       psDest, damage),
                  w.st[s], psDest)

isVtol(o) == FALSE

\* Whether proj_radiusSweep passes over psCurr.
\* The bug of a sweep that does not look at WEAPON_FLAG_NO_FRIENDLY_FIRE.
SweepSkips_NoFriendlyTest(w, p, psCurr) ==
    \/ isDead(w, psCurr)
    \/ psCurr = p.psDest
    \/ (objType(psCurr) = "OBJ_FEATURE" /\ ~objDamageable(psCurr))
    \/ (IF objType(psCurr) = "OBJ_DROID" /\ isFlying(psCurr)
        THEN ~WeaponStats(p.psWStats).shootInAir
        ELSE ~WeaponStats(p.psWStats).shootOnGround)

\* The bug of a sweep that hits the main target a second time.
SweepSkips_HitsMainTarget(w, p, psCurr) ==
    \/ isDead(w, psCurr)
    \/ (/\ p.psSource # NULL
        /\ objPlayer(p.psSource) = objPlayer(psCurr)
        /\ WeaponStats(p.psWStats).noFriendlyFire)
    \/ (objType(psCurr) = "OBJ_FEATURE" /\ ~objDamageable(psCurr))
    \/ (IF objType(psCurr) = "OBJ_DROID" /\ isFlying(psCurr)
        THEN ~WeaponStats(p.psWStats).shootInAir
        ELSE ~WeaponStats(p.psWStats).shootOnGround)

\* Whether proj_radiusSweep passes over psCurr, before the test of the sphere
\* (lines 1023-1063).
SweepSkips(w, p, psCurr) ==
    \/ isDead(w, psCurr)
    \/ psCurr = p.psDest
    \/ (/\ p.psSource # NULL
        /\ objPlayer(p.psSource) = objPlayer(psCurr)
        /\ WeaponStats(p.psWStats).noFriendlyFire)
    \/ (objType(psCurr) = "OBJ_FEATURE" /\ ~objDamageable(psCurr))
    \/ (IF objType(psCurr) = "OBJ_DROID" /\ isFlying(psCurr)
        THEN ~WeaponStats(p.psWStats).shootInAir
        ELSE ~WeaponStats(p.psWStats).shootOnGround)

\* Vector3i_InSphere for an object on the ground and a centre at height z.
Vector3i_InSphere(pos, centre, z, radius) ==
    (pos - centre) * (pos - centre) + z * z <= radius * radius

RECURSIVE RadiusSweepLoop(_, _, _, _, _, _)
RadiusSweepLoop(w, s, gridList, targetPos, targetZ, radius) ==
    IF gridList = <<>> THEN w
    ELSE LET psCurr == Head(gridList)
             p == w.st[s]
             outOfRange == /\ objType(psCurr) = "OBJ_DROID"
                           /\ ~Vector3i_InSphere(w.ob[psCurr].pos, targetPos, targetZ, radius)
             damage == calcDamage(WeaponStats(p.psWStats).radiusDamage, psCurr)
         IN  IF SweepSkips(w, p, psCurr) \/ outOfRange
             THEN RadiusSweepLoop(w, s, Tail(gridList), targetPos, targetZ, radius)
             ELSE RadiusSweepLoop(objectDamage(w, s, psCurr, damage, "radius"),
                                  s, Tail(gridList), targetPos, targetZ, radius)

proj_radiusSweep(w, s, targetPos, targetZ, empRadius) ==
    LET stats == WeaponStats(w.st[s].psWStats)
        radius == IF empRadius THEN stats.empRadius ELSE stats.radius
    IN  RadiusSweepLoop(Emit(w, <<"sweep", w.st[s].id, empRadius>>), s,
                        gridStartIterate(w, targetPos, radius), targetPos, targetZ, radius)

\* Whether proj_checkPeriodicalDamage passes over psCurr.
\* The bug of a fire that burns the objects of the projectile's own player.
PeriodicalSkips_BurnsAllies(w, p, psCurr) ==
    \/ isDead(w, psCurr)
    \/ (objType(psCurr) = "OBJ_DROID" /\ isVtol(psCurr))
    \/ (objType(psCurr) = "OBJ_FEATURE" /\ ~objDamageable(psCurr))

PeriodicalSkips(w, p, psCurr) ==
    \/ isDead(w, psCurr)
    \/ aiCheckAlliances(p.player, objPlayer(psCurr))
    \/ (objType(psCurr) = "OBJ_DROID" /\ isVtol(psCurr))
    \/ (objType(psCurr) = "OBJ_FEATURE" /\ ~objDamageable(psCurr))

RECURSIVE PeriodicalLoop(_, _, _)
PeriodicalLoop(w, s, gridList) ==
    IF gridList = <<>> THEN w
    ELSE LET psCurr == Head(gridList)
             p == w.st[s]
             damageRate == calcDamage(WeaponStats(p.psWStats).periodicalDamage, psCurr)
         IN  IF PeriodicalSkips(w, p, psCurr) THEN PeriodicalLoop(w, s, Tail(gridList))
             ELSE PeriodicalLoop(objectDamage(w, s, psCurr, damageRate, "periodical"),
                                 s, Tail(gridList))

proj_checkPeriodicalDamage(w, s) ==
    PeriodicalLoop(w, s, gridStartIterate(w, w.st[s].pos,
                                          WeaponStats(w.st[s].psWStats).periodicalDamageRadius))

(***************************************************************************)
(* proj_ImpactFunc and proj_PostImpactFunc.                                *)
(***************************************************************************)
\* The bug of a direct hit that records the target it has destroyed.
ImpactDamaged_Always(w, s, psDest) == [w EXCEPT !.st[s].psDamaged = Append(@, psDest)]

\* The entry in the damaged list after the damage of the direct hit (lines 1291-1296).
ImpactDamaged(w, s, psDest) ==
    IF w.rel >= 0 THEN [w EXCEPT !.st[s].psDamaged = Append(@, psDest)] ELSE w

ImpactDirectHit(w, s) ==
    ImpactDamaged(objectDamage(w, s, w.st[s].psDest,
                               calcDamage(WeaponStats(w.st[s].psWStats).damage, w.st[s].psDest),
                               "direct"),
                  s, w.st[s].psDest)

\* The bug of an impact that leaves the expected damage registered.
ImpactClearExpected_Keep(w, s) == w

\* temp = psDest; setProjectileDestination(nullptr); expectedDamageCaused = 0;
\* setProjectileDestination(temp).
ImpactClearExpected(w, s) ==
    LET temp == w.st[s].psDest
        w1 == setProjectileDestination(w, s, NULL)
        w2 == [w1 EXCEPT !.st[s].expectedDamageCaused = 0]
    IN  setProjectileDestination(w2, s, temp)

ImpactSweep(w, s, targetPos, targetZ, empRadius, wanted) ==
    IF wanted THEN proj_radiusSweep(w, s, targetPos, targetZ, empRadius) ELSE w

\* The area effect of an impact: the state, the time of the explosion, the sweeps.
ImpactRadius(w, s) ==
    LET p == w.st[s]
        stats == WeaponStats(p.psWStats)
        hasRadius == stats.radius # 0
        hasEMPRadius == stats.empRadius # 0
        targetPos == IF p.psDest # NULL /\ objType(p.psDest) = "OBJ_DROID"
                     THEN w.ob[p.psDest].pos ELSE p.pos
        targetZ == IF p.psDest # NULL /\ objType(p.psDest) = "OBJ_DROID" THEN 0 ELSE p.z
    IN  IF hasRadius \/ hasEMPRadius
        THEN ImpactSweep(
                 ImpactSweep([w EXCEPT !.st[s].state = "PROJ_POSTIMPACT",
                                       !.st[s].born = gameTime],
                             s, targetPos, targetZ, TRUE,
                             hasEMPRadius /\ stats.weaponSubClass = "WSC_EMP"),
                 s, targetPos, targetZ, FALSE, hasRadius)
        ELSE w

\* The end of proj_ImpactFunc: the periodical damage keeps the projectile.
\* The bug of an impact that only a periodical damage time takes to POSTIMPACT.
ImpactPeriodical_ResetsState(w, s) ==
    IF WeaponStats(w.st[s].psWStats).periodicalDamageTime # 0
    THEN [w EXCEPT !.st[s].state = "PROJ_POSTIMPACT", !.st[s].born = gameTime]
    ELSE [w EXCEPT !.st[s].state = "PROJ_IMPACT"]

ImpactPeriodical(w, s) ==
    IF WeaponStats(w.st[s].psWStats).periodicalDamageTime # 0
    THEN [w EXCEPT !.st[s].state = "PROJ_POSTIMPACT", !.st[s].born = gameTime]
    ELSE w

\* proj_ImpactFunc once the expected damage is cleared.
\* The bug of an impact whose early return for a weapon without splash and
\* without periodical damage is missing.
ImpactEffects_NoEarlyReturn(w, s) == ImpactPeriodical(ImpactRadius(w, s), s)

ImpactEffects(w, s) ==
    IF /\ WeaponStats(w.st[s].psWStats).radius = 0
       /\ WeaponStats(w.st[s].psWStats).periodicalDamageTime = 0
    THEN [w EXCEPT !.st[s].state = "PROJ_INACTIVE"]
    ELSE ImpactPeriodical(ImpactRadius(w, s), s)

proj_ImpactFunc(w, s) ==
    LET p == w.st[s]
    IN  IF p.psDest # NULL /\ objType(p.psDest) = "OBJ_FEATURE" /\ ~objDamageable(p.psDest)
        THEN [w EXCEPT !.st[s].state = "PROJ_INACTIVE"]
        ELSE ImpactEffects(
                 ImpactClearExpected(IF p.psDest = NULL THEN w ELSE ImpactDirectHit(w, s), s),
                 s)

\* The bug of an explosion that, when it is over, sends the projectile off again.
proj_PostImpactFunc_Relaunch(w, s) ==
    LET p == w.st[s]
        stats == WeaponStats(p.psWStats)
        age == gameTime - p.born
    IN  IF age > stats.radiusLife /\ age > stats.periodicalDamageTime
        THEN [w EXCEPT !.st[s].state = "PROJ_INFLIGHT"]
        ELSE IF stats.periodicalDamageTime > 0 THEN proj_checkPeriodicalDamage(w, s)
        ELSE w

\* The bug of a post-impact effect that ends when the age exceeds either of
\* radiusLife and periodicalDamageTime.
proj_PostImpactFunc_EitherAge(w, s) ==
    LET p == w.st[s]
        stats == WeaponStats(p.psWStats)
        age == gameTime - p.born
    IN  IF age > stats.radiusLife \/ age > stats.periodicalDamageTime
        THEN [w EXCEPT !.st[s].state = "PROJ_INACTIVE"]
        ELSE IF stats.periodicalDamageTime > 0 THEN proj_checkPeriodicalDamage(w, s)
        ELSE w

proj_PostImpactFunc(w, s) ==
    LET p == w.st[s]
        stats == WeaponStats(p.psWStats)
        age == gameTime - p.born
    IN  IF age > stats.radiusLife /\ age > stats.periodicalDamageTime
        THEN [w EXCEPT !.st[s].state = "PROJ_INACTIVE"]
        ELSE IF stats.periodicalDamageTime > 0 THEN proj_checkPeriodicalDamage(w, s)
        ELSE w


(***************************************************************************)
(* PROJECTILE::update and proj_UpdateAll.                                  *)
(***************************************************************************)
\* The start of update: the previous sample, and the dead objects dropped
\* from psSource, psDest and psDamaged.
\* The bug of leaving a dead destination in place.
UpdateDropDead_KeepDest(w, s) ==
    [w EXCEPT !.st[s].prevSpacetime =
                  [pos |-> w.st[s].pos, z |-> w.st[s].z, time |-> w.st[s].time],
              !.st[s].psSource = IF @ # NULL /\ isDead(w, @) THEN NULL ELSE @,
              !.st[s].psDamaged = SelectSeq(@, LAMBDA o : ~isDead(w, o))]

\* PROJECTILE::update before the switch: the dead source, destination and
\* damaged objects are dropped (lines 1385-1401).
UpdateDropDead(w, s) ==
    LET p0 == w.st[s]
        p1 == [p0 EXCEPT !.prevSpacetime = [pos |-> p0.pos, z |-> p0.z, time |-> p0.time],
                         !.psSource = IF @ # NULL /\ isDead(w, @) THEN NULL ELSE @]
        w1 == [w EXCEPT !.st[s] = p1]
        w2 == IF p1.psDest # NULL /\ isDead(w, p1.psDest)
              THEN setProjectileDestination(w1, s, NULL) ELSE w1
    IN  [w2 EXCEPT !.st[s].psDamaged = SelectSeq(@, LAMBDA o : ~isDead(w, o))]

\* The switch on the state, with its fallthroughs; w.ret is the spawned projectile.
SwitchPostImpact(w, s) ==
    IF w.st[s].state = "PROJ_POSTIMPACT" THEN proj_PostImpactFunc(w, s) ELSE w

SwitchImpact(w, s) ==
    IF w.st[s].state = "PROJ_IMPACT" THEN SwitchPostImpact(proj_ImpactFunc(w, s), s) ELSE w

UpdateSwitch(w, s) ==
    CASE w.st[s].state = "PROJ_INFLIGHT" -> SwitchImpact(proj_InFlightFunc(w, s), s)
      [] w.st[s].state = "PROJ_IMPACT" -> SwitchImpact([w EXCEPT !.ret = NULL], s)
      [] w.st[s].state = "PROJ_POSTIMPACT" -> proj_PostImpactFunc([w EXCEPT !.ret = NULL], s)
      [] OTHER -> [w EXCEPT !.st[s].died = w.st[s].time, !.ret = NULL]

\* update after the dead objects are dropped: a projectile off the map dies.
\* The bug of running the state handler before the projectile is found off the map.
UpdateOnMap_HandlerFirst(w, s) ==
    IF ~worldOnMap(w.st[s].pos)
    THEN [UpdateSwitch(w, s) EXCEPT !.st[s].died = 1]
    ELSE UpdateSwitch(w, s)

\* PROJECTILE::update from the check of the map on (lines 1403-1434).
UpdateOnMap(w, s) ==
    IF ~worldOnMap(w.st[s].pos)
    THEN [w EXCEPT !.st[s].died = 1, !.ret = NULL]
    ELSE UpdateSwitch(w, s)

\* PROJECTILE::update; w.ret is the spawned projectile's cell, or NULL.
PROJECTILE_update(w, s) ==
    UpdateOnMap(UpdateDropDead(Emit(w, <<"update", w.st[s].id>>), s), s)

\* The bug of a sweep that goes on into the projectiles it has spawned.
RECURSIVE UpdateLoop_Interleaved(_, _)
UpdateLoop_IntoSpawned(c, rest) ==
    UpdateLoop_Interleaved(c, IF c.w.ret # NULL THEN Append(rest, c.w.ret) ELSE rest)

UpdateLoop_Interleaved(r, list) ==
    IF list = <<>> THEN r
    ELSE UpdateLoop_IntoSpawned(
             [w |-> PROJECTILE_update(r.w, Head(list)),
              spawnedProjectiles |-> r.spawnedProjectiles],
             Tail(list))

\* The first loop of proj_UpdateAll over the list; r is [w, spawnedProjectiles].
\* The bug of keeping the spawned projectiles in the order of their addresses.
CollectSpawned_ByAddress(w, spawnedProjectiles) ==
    [w |-> w,
     spawnedProjectiles |->
         IF w.ret # NULL
         THEN SelectSeq(spawnedProjectiles, LAMBDA s : s < w.ret) \o <<w.ret>>
                  \o SelectSeq(spawnedProjectiles, LAMBDA s : s > w.ret)
         ELSE spawnedProjectiles]

\* The spawned projectile, if there is one, is kept for after the loop
\* (lines 1456-1463).
CollectSpawned(w, spawnedProjectiles) ==
    [w |-> w,
     spawnedProjectiles |-> IF w.ret # NULL THEN Append(spawnedProjectiles, w.ret)
                            ELSE spawnedProjectiles]

RECURSIVE UpdateLoop(_, _)
UpdateLoop(r, list) ==
    IF list = <<>> THEN r
    ELSE UpdateLoop(CollectSpawned(PROJECTILE_update(r.w, Head(list)), r.spawnedProjectiles),
                    Tail(list))

\* The predicate of the remove_if: the projectile is dead and its tick has passed.
IsReclaimable(p) == ~(p.died = 0 \/ p.died >= gameTime - deltaGameTime)

\* Remove and free the dead projectiles; r is [w, list], list the survivors.
\* The bug of taking the dead projectiles off the list and leaving them in the
\* storage.
RECURSIVE RemoveDead_KeepsStorage(_, _)
RemoveDead_KeepsStorage(r, list) ==
    IF list = <<>> THEN r
    ELSE LET s == Head(list)
             p == r.w.st[s]
         IN  IF IsReclaimable(p)
             THEN RemoveDead_KeepsStorage(
                      [w |-> Emit(Emit(r.w, <<"audio_RemoveObj", p.id>>), <<"erase", p.id>>),
                       list |-> r.list], Tail(list))
             ELSE RemoveDead_KeepsStorage([w |-> r.w, list |-> Append(r.list, s)],
                                          Tail(list))

RECURSIVE RemoveDead(_, _)
RemoveDead(r, list) ==
    IF list = <<>> THEN r
    ELSE LET s == Head(list)
             p == r.w.st[s]
             freed == [Emit(Emit(r.w, <<"audio_RemoveObj", p.id>>), <<"erase", p.id>>)
                       EXCEPT !.st[s] = NoProjectile]
         IN  IF IsReclaimable(p)
             THEN RemoveDead([w |-> freed, list |-> r.list], Tail(list))
             ELSE RemoveDead([w |-> r.w, list |-> Append(r.list, s)], Tail(list))

RECURSIVE EmitAppends(_, _)
EmitAppends(w, spawned) ==
    IF spawned = <<>> THEN w
    ELSE EmitAppends(Emit(w, <<"append", w.st[Head(spawned)].id>>), Tail(spawned))

\* The bug of putting the spawned projectiles in front of the survivors.
AppendSpawned_InFront(r, spawnedProjectiles) ==
    [w |-> EmitAppends(r.w, spawnedProjectiles), list |-> spawnedProjectiles \o r.list]

\* Add the spawned projectiles after the survivors.
AppendSpawned(r, spawnedProjectiles) ==
    [w |-> EmitAppends(r.w, spawnedProjectiles), list |-> r.list \o spawnedProjectiles]

\* proj_UpdateAll after its first loop.
UpdateAllSwept(swept, list) ==
    AppendSpawned(RemoveDead([w |-> swept.w, list |-> <<>>], list), swept.spawnedProjectiles)

\* proj_UpdateAll on world w and list: the new world and the new list.
proj_UpdateAll(w, list) ==
    UpdateAllSwept(UpdateLoop([w |-> w, spawnedProjectiles |-> <<>>], list), list)

(***************************************************************************)
(* The operations of the registry, on a whole program state P:             *)
(* [w: the world, list, next, enum, fired].                                *)
(***************************************************************************)
Prog == [w |-> World, list |-> psProjectileList, next |-> psProjectileNext,
         enum |-> enumerated, fired |-> fired]

NoEnumeration == [active |-> FALSE, got |-> <<>>]

\* The start of operation op: nothing returned yet, and a new trace.
Call(P, op) == [P EXCEPT !.w.tr = << <<"call", op>> >>, !.w.ret = NULL, !.w.rel = 0]

\* proj_AddActiveProjectile, when there is a projectile to add.
AddActive(P, w) ==
    IF w.ret = NULL THEN [P EXCEPT !.w = w]
    ELSE [P EXCEPT !.w = w, !.list = Append(@, w.ret),
                   !.enum = NoEnumeration, !.fired = @ + 1]

\* proj_SendProjectile by player 0, then proj_AddActiveProjectile.
proj_SendProjectile(P, nStat, attacker, target, psTarget) ==
    AddActive(P, proj_SendProjectileInternal(
                     Emit(Call(P, "proj_SendProjectile").w, <<"fire", nStat, psTarget>>),
                     nStat, attacker, 0, target, psTarget))

UpdatedAll(P, r) ==
    [P EXCEPT !.w = r.w, !.list = r.list,
              !.enum = IF r.list = P.list THEN @ ELSE NoEnumeration]

UpdateAllOp(P) == UpdatedAll(P, proj_UpdateAll(Call(P, "proj_UpdateAll").w, P.list))

RECURSIVE AudioRemoveAll(_, _)
AudioRemoveAll(w, list) ==
    IF list = <<>> THEN w
    ELSE AudioRemoveAll(Emit(w, <<"audio_RemoveObj", w.st[Head(list)].id>>), Tail(list))

\* globalProjectileStorage.clear(), cell by cell.
RECURSIVE StorageClear(_, _)
StorageClear(w, s) ==
    IF s \notin Slots THEN w
    ELSE IF w.st[s] = NoProjectile THEN StorageClear(w, s + 1)
    ELSE StorageClear([Emit(w, <<"erase", w.st[s].id>>) EXCEPT !.st[s] = NoProjectile], s + 1)

\* The bug of clearing the storage before the audio code is told.
proj_FreeAllProjectiles_EraseFirst(P) ==
    LET w1 == StorageClear(Call(P, "proj_FreeAllProjectiles").w, 1)
    IN  [P EXCEPT !.w = AudioRemoveAll(w1, P.list), !.list = <<>>, !.next = 1,
                  !.enum = NoEnumeration]

proj_FreeAllProjectiles(P) ==
    LET w1 == AudioRemoveAll(Call(P, "proj_FreeAllProjectiles").w, P.list)
    IN  [P EXCEPT !.w = StorageClear(w1, 1), !.list = <<>>, !.next = 1,
                  !.enum = NoEnumeration]

proj_InitSystem(P) ==
    [Call(P, "proj_InitSystem") EXCEPT !.list = <<>>, !.next = 1, !.w.trk = 0,
                                       !.enum = NoEnumeration]

\* The projectile the cursor is at, or NULL at the end of the list.
AtCursor(list, next) == IF next <= Len(list) THEN list[next] ELSE NULL

proj_GetFirst(P) ==
    LET r == AtCursor(P.list, 1)
    IN  [Call(P, "proj_GetFirst") EXCEPT !.next = 1, !.w.ret = r,
                         !.enum = [active |-> TRUE, got |-> <<r>>]]

\* The bug of a proj_GetNext that does not advance the cursor.
proj_GetNext_NoAdvance(P) ==
    LET r == AtCursor(P.list, P.next)
    IN  [Call(P, "proj_GetNext") EXCEPT !.w.ret = r,
                                    !.enum = [active |-> @.active, got |-> Append(@.got, r)]]

proj_GetNext(P) ==
    LET r == AtCursor(P.list, P.next + 1)
    IN  [Call(P, "proj_GetNext") EXCEPT !.next = @ + 1, !.w.ret = r,
                         !.enum = [active |-> @.active, got |-> Append(@.got, r)]]

\* The world between two ticks: every object's previous position is the one it
\* had, and droid 2, if alive, is at newPos.  An enumeration does not go on
\* into the new tick.
MoveObjects(P, newPos) ==
    [Call(P, "gameTimeUpdate") EXCEPT !.w.ob = [o \in Objs |->
        [P.w.ob[o] EXCEPT !.prevPos = P.w.ob[o].pos,
                          !.pos = IF o = 2 /\ ~P.w.ob[o].died THEN newPos ELSE @]],
                     !.enum = NoEnumeration]

(***************************************************************************)
(* The initial state and the actions.                                      *)
(***************************************************************************)
\* The clock stops here: late enough for the last projectile fired to end.
MaxGameTime == (LastFireTick + 10) * TickLength

\* Who fires: nobody (a scripted shot) or droid 1.
Attackers == {NoAttacker, [kind |-> "obj", ref |-> 1]}

\* The points fired at when no object is: west of the droids, and between them.
TargetPoints == {0, 3}

InitialObjects ==
    [o \in Objs |-> [died |-> FALSE, body |-> OriginalBody,
                     expectedDamageDirect |-> 0, expectedDamageIndirect |-> 0,
                     pos |-> InitialPos(o), prevPos |-> InitialPos(o)]]

EmptyStorage == [s \in Slots |-> NoProjectile]

Init ==
    /\ gameTime = 0
    /\ deltaGameTime = 0
    /\ updated = TRUE
    /\ gameRandState \in {0, 1}
    /\ objects = InitialObjects
    /\ globalProjectileStorage = EmptyStorage
    /\ psProjectileList = <<>>
    /\ psProjectileNext = 1
    /\ projectileTrackerIDIncrement = 0
    /\ ret = NULL
    /\ trace = <<>>
    /\ fired = 0
    /\ enumerated = NoEnumeration
    /\ twin = [w |-> [st |-> EmptyStorage, ob |-> InitialObjects, trk |-> 0,
                      rnd |-> gameRandState, tr |-> <<>>, ret |-> NULL, rel |-> 0,
                      alloc |-> "high"],
               list |-> <<>>, next |-> 1, enum |-> NoEnumeration, fired |-> 0]

\* The program state P becomes the next state.
Install(P) ==
    /\ globalProjectileStorage' = P.w.st
    /\ objects' = P.w.ob
    /\ projectileTrackerIDIncrement' = P.w.trk
    /\ gameRandState' = P.w.rnd
    /\ ret' = P.w.ret
    /\ trace' = P.w.tr
    /\ psProjectileList' = P.list
    /\ psProjectileNext' = P.next
    /\ enumerated' = P.enum
    /\ fired' = P.fired

\* A weapon can still fire.
CanFire == fired < MaxFired /\ gameTime <= LastFireTick * TickLength

\* The game loop starts a tick of length delta; droid 2 is at newPos in it.  The
\* clock is followed while a projectile is in play or can still be fired, and
\* droid 2 makes its one move away from where it started.
TickStep(delta, newPos) ==
    /\ updated
    /\ gameTime + delta <= MaxGameTime
    /\ CanFire \/ psProjectileList # <<>>
    /\ newPos = objects[2].pos \/ objects[2].pos = InitialPos(2)
    /\ gameTime' = gameTime + delta
    /\ deltaGameTime' = delta
    /\ updated' = FALSE
    /\ Install(MoveObjects(Prog, newPos))

\* A weapon fires in the tick, before the projectiles are updated.
FireStep(nStat, attacker, target, psTarget) ==
    /\ ~updated
    /\ CanFire
    /\ attacker.kind = "obj" => ~objects[attacker.ref].died
    /\ psTarget # NULL => (target = objects[psTarget].pos /\ psTarget # attacker.ref)
    /\ psTarget = NULL => target \in TargetPoints
    /\ Install(proj_SendProjectile(Prog, nStat, attacker, target, psTarget))
    /\ UNCHANGED <<gameTime, deltaGameTime, updated>>

\* A weapon that was aimed in an earlier tick fires at an object that has died
\* since.
FireAtDeadStep(nStat, attacker, psTarget) ==
    /\ ~updated
    /\ ~CanFire
    /\ fired < MaxFired
    /\ attacker.kind = "obj" => ~objects[attacker.ref].died
    /\ objects[psTarget].died
    /\ Install(proj_SendProjectile(Prog, nStat, attacker, objects[psTarget].pos, psTarget))
    /\ UNCHANGED <<gameTime, deltaGameTime, updated>>

UpdateAllStep ==
    /\ ~updated
    /\ updated' = TRUE
    /\ Install(UpdateAllOp(Prog))
    /\ UNCHANGED <<gameTime, deltaGameTime>>

\* The projectiles are freed between two ticks.
FreeAllStep ==
    /\ updated
    /\ Install(proj_FreeAllProjectiles(Prog))
    /\ UNCHANGED <<gameTime, deltaGameTime, updated>>

\* proj_InitSystem runs when a level starts, after the shutdown of the last one.
InitSystemStep ==
    /\ psProjectileList = <<>>
    /\ globalProjectileStorage = EmptyStorage
    /\ Install(proj_InitSystem(Prog))
    /\ UNCHANGED <<gameTime, deltaGameTime, updated>>

\* The projectiles are enumerated between two ticks.
GetFirstStep ==
    /\ updated
    /\ Install(proj_GetFirst(Prog))
    /\ UNCHANGED <<gameTime, deltaGameTime, updated>>

\* A caller of proj_GetNext stops at the null it is given.
GetNextStep ==
    /\ enumerated.active
    /\ psProjectileNext <= Len(psProjectileList)
    /\ Install(proj_GetNext(Prog))
    /\ UNCHANGED <<gameTime, deltaGameTime, updated>>

\* The howitzer is droid 1's, and shells the ground.
Howitzer == 4

FireInputs ==
    {<<n, a, t, o>> \in (Weapons \cup {NumWeaponStats}) \X Attackers
                        \X (0 .. mapWidth) \X ({NULL} \cup Objs) :
         n = Howitzer => (a.kind = "obj" /\ o = NULL)}

Tick == \E newPos \in Droid2Positions : TickStep(TickLength, newPos) /\ UNCHANGED twin

Fire == \E i \in FireInputs : FireStep(i[1], i[2], i[3], i[4]) /\ UNCHANGED twin

FireAtDead ==
    \E nStat \in Weapons \ {Howitzer} : \E attacker \in Attackers : \E psTarget \in Objs :
        FireAtDeadStep(nStat, attacker, psTarget) /\ UNCHANGED twin

UpdateAll == UpdateAllStep /\ UNCHANGED twin

FreeAll == FreeAllStep /\ UNCHANGED twin

InitSystem == InitSystemStep /\ UNCHANGED twin

GetFirst == GetFirstStep /\ UNCHANGED twin

GetNext == GetNextStep /\ UNCHANGED twin

Next == Tick \/ Fire \/ FireAtDead \/ UpdateAll \/ FreeAll \/ InitSystem \/ GetFirst \/ GetNext

Spec == Init /\ [][Next]_vars

\* The game loop alone: every tick the clock advances and proj_UpdateAll runs,
\* and nothing frees the projectiles from outside.
LoopNext == Tick \/ Fire \/ UpdateAll

\* Fairness of the loop.  The clock is advanced whenever it can be.  The update
\* of a tick is never put off for ever: proj_UpdateAll can run exactly when
\* updated is false and every run of it sets updated, so weak fairness of
\* UpdateAll is the same as updated being true again and again.
LoopSpec == Init /\ [][LoopNext]_vars /\ WF_vars(Tick) /\ []<>updated

\* Two independent runs of the program.  They are given the same calls, the
\* same world and clock and the same random seed; what is not given, the cells
\* the storage hands out, differs: the first run's storage fills from the low
\* cells and the twin's from the high ones.
TwinTick ==
    \E newPos \in Droid2Positions :
        TickStep(TickLength, newPos) /\ twin' = MoveObjects(twin, newPos)

TwinFire ==
    \E i \in FireInputs :
        /\ FireStep(i[1], i[2], i[3], i[4])
        /\ twin' = proj_SendProjectile(twin, i[1], i[2], i[3], i[4])

TwinUpdateAll == UpdateAllStep /\ twin' = UpdateAllOp(twin)

TwoRunsNext == TwinTick \/ TwinFire \/ TwinUpdateAll

TwoRuns == Init /\ [][TwoRunsNext]_vars

(***************************************************************************)
(* The functions of the module that compute a value from their arguments,  *)
(* applied to arguments drawn from bounded sets.  The initial state holds  *)
(* the pending call in trace; applying it leaves the value in ret and the  *)
(* call with its arguments in trace.                                       *)
(***************************************************************************)
(***************************************************************************)
(* qualityFactor.  Powers and points are below 2^31; the quotient          *)
(* 65536 * victim / attacker is computed in 64 bits and stored in 32.      *)
(***************************************************************************)
\* floor(2^bits * r / a) added to q * 2^bits, for r < a: the long division,
\* bit by bit, in which no intermediate value leaves 31 bits.
RECURSIVE FractionBits(_, _, _, _)
FractionBits(r, a, bits, q) ==
    IF bits = 0 THEN q
    ELSE IF r >= a - r THEN FractionBits(r - (a - r), a, bits - 1, 2 * q + 1)
    ELSE FractionBits(r + r, a, bits - 1, 2 * q)

\* uint32_t ratio = (uint64_t)65536 * victim / attacker; CLIP(ratio, lo, hi).
\* The low 32 bits of the quotient are 65536 * ((victim / attacker) % 65536)
\* plus the 16 bits of the fraction; from 65536 * 2 upwards hi is the result.
ClippedRatio(victim, attacker, lo, hi) ==
    IF (victim \div attacker) % 65536 >= 2 THEN hi
    ELSE clip(65536 * ((victim \div attacker) % 65536)
                  + FractionBits(victim % attacker, attacker, 16, 0),
              lo, hi)

\* The bug of ratios that are not clipped from below.
qualityFactor_NoLowerClip(attackerPower, attackerPoints, victimPower, victimPoints) ==
    IF attackerPower = 0 \/ attackerPoints = 0 THEN 65536 \div 2
    ELSE (ClippedRatio(victimPower, attackerPower, 0, 65536 * 2)
          + ClippedRatio(victimPoints, attackerPoints, 0, 65536 * 2)) \div 2

\* qualityFactor of an attacker and a victim with these values of
\* calcDroidPower and calcDroidPoints.
qualityFactor(attackerPower, attackerPoints, victimPower, victimPoints) ==
    IF attackerPower = 0 \/ attackerPoints = 0 THEN 65536 \div 2
    ELSE (ClippedRatio(victimPower, attackerPower, 65536 \div 2, 65536 * 2)
          + ClippedRatio(victimPoints, attackerPoints, 65536 \div 2, 65536 * 2)) \div 2

\* The powers and points of the droids: small ones, the ones around 2^16 and
\* the largest.
Qualities == {0, 1, 2, 3, 65535, 65536, 65537, 1073741824, 2147483647}

Distances == 0 .. mapWidth

Heights == (-MaxHeight) .. MaxHeight

Speeds == 1 .. MaxSpeed

MinAngles == {0, DEG45}

Pending(op, args) == << <<"pending", op>>, args >>

\* The position samples: the points around the target (which is at the origin)
\* and points a long step away from it.
Coordinates == {-2, -1, 0, 1, FarCoordinate}

Samples == [x : Coordinates, y : Coordinates, z : Coordinates]

\* The shapes establishTargetShape gives: a box and a sphere.
Shapes == {establishTargetShape(o) : o \in Objs}

\* The calls of op that are still to be made, one for each of the inputs.
PendingCalls(op, inputs) == {Pending(op, a) : a \in inputs}

FunctionsInit ==
    /\ gameTime = 0
    /\ deltaGameTime = 0
    /\ updated = TRUE
    /\ gameRandState \in {0, 1}
    /\ objects = InitialObjects
    /\ globalProjectileStorage = EmptyStorage
    /\ psProjectileList = <<>>
    /\ psProjectileNext = 1
    /\ projectileTrackerIDIncrement = 0
    /\ ret = NULL
    /\ \/ trace \in PendingCalls("projCalcIndirectVelocities",
                                 Distances \X Heights \X Speeds \X MinAngles)
       \/ trace \in PendingCalls("collisionXYZ",
                                 Samples \X Samples \X Shapes \X (0 .. MaxTargetHeight))
       \/ trace \in PendingCalls("qualityFactor",
                                 Qualities \X Qualities \X Qualities \X Qualities)
    /\ fired = 0
    /\ enumerated = NoEnumeration
    /\ twin = NULL

Applied(op, value) ==
    /\ trace[1] = <<"pending", op>>
    /\ ret' = value
    /\ trace' = << <<"call", op>>, trace[2] >>
    /\ UNCHANGED <<gameTime, deltaGameTime, updated, objects, globalProjectileStorage,
                   psProjectileList, psProjectileNext, projectileTrackerIDIncrement,
                   fired, enumerated, twin>>

\* projCalcIndirectVelocities(dx, dz, v, min_angle); it draws one random
\* number (randomVariation).
CalcIndirectVelocities ==
    /\ Applied("projCalcIndirectVelocities",
               projCalcIndirectVelocities(World, trace[2][1], trace[2][2], trace[2][3],
                                          trace[2][4]))
    /\ gameRandState' = gameRandNext(World).rnd

\* collisionXYZ(v1, v2, shape, height)
CollisionXYZ ==
    /\ Applied("collisionXYZ", collisionXYZ(trace[2][1], trace[2][2], trace[2][3], trace[2][4]))
    /\ UNCHANGED gameRandState

\* qualityFactor(attacker, victim), by the powers and points of the two droids
QualityFactor ==
    /\ Applied("qualityFactor", qualityFactor(trace[2][1], trace[2][2], trace[2][3], trace[2][4]))
    /\ UNCHANGED gameRandState

FunctionsNext == CalcIndirectVelocities \/ CollisionXYZ \/ QualityFactor

Functions == FunctionsInit /\ [][FunctionsNext]_vars

(***************************************************************************)
(* Notions the properties are stated in.                                   *)
(***************************************************************************)
\* The cells of the storage that hold a projectile.
Stored == {s \in Slots : globalProjectileStorage[s] # NoProjectile}

\* The last operation was op / the operation of this step is op.
Called(tr, op) == tr # <<>> /\ tr[1] = <<"call", op>>

\* The events of one kind in a trace, in order.
EventsOf(tr, kind) == SelectSeq(tr, LAMBDA e : e[1] = kind)

\* The indices of a trace at which there is an event of one kind.
IndicesOf(tr, kind) == {i \in DOMAIN tr : tr[i][1] = kind}

\* The ids of the projectiles in the cells of a list, in order.
IdsOf(storage, cells) == [i \in DOMAIN cells |-> storage[cells[i]].id]

\* The cell s holds the same projectile before and after the step.
SameProjectile(s) ==
    /\ globalProjectileStorage[s] # NoProjectile
    /\ globalProjectileStorage'[s] # NoProjectile
    /\ globalProjectileStorage[s].id = globalProjectileStorage'[s].id

StateRank(state) ==
    CASE state = "PROJ_INFLIGHT" -> 0
      [] state = "PROJ_IMPACT" -> 1
      [] state = "PROJ_POSTIMPACT" -> 2
      [] state = "PROJ_INACTIVE" -> 3

(***************************************************************************)
(* The properties.                                                         *)
(***************************************************************************)
\* C10: the state of a projectile only moves forward along PROJ_INFLIGHT,
\* PROJ_IMPACT, PROJ_POSTIMPACT, PROJ_INACTIVE: no step takes a projectile
\* that stays in storage to an earlier state, so an inactive projectile stays
\* inactive until it is reclaimed.
C10_StateOnlyForward ==
    [][\A s \in Slots :
          SameProjectile(s) =>
              StateRank(globalProjectileStorage'[s].state)
                  >= StateRank(globalProjectileStorage[s].state)]_vars

\* A projectile with an area effect has gone through every state: it is
\* inactive after an update, and its explosion began later than it was fired.
C10_Witness ==
    /\ Called(trace, "proj_UpdateAll")
    /\ \E s \in Stored :
          /\ globalProjectileStorage[s].state = "PROJ_INACTIVE"
          /\ WeaponStats(globalProjectileStorage[s].psWStats).periodicalDamageTime # 0
          /\ <<"update", globalProjectileStorage[s].id>> \in SeqToSet(trace)

\* The survivors of the old list in the new one, and the newcomers.
Kept(old, new) == SelectSeq(old, LAMBDA c : c \in SeqToSet(new))

Added(old, new) == SelectSeq(new, LAMBDA c : c \notin SeqToSet(old))

\* The position of the projectile with this id in a list of cells.
PositionOf(storage, cells, id) == CHOOSE i \in DOMAIN cells : storage[cells[i]].id = id

\* C7: the list keeps insertion order.  In every step the survivors keep their
\* relative order and the newcomers come after all of them; a fire call adds
\* at most the projectile it returns; proj_UpdateAll adds the children of the
\* sweep in the order in which they were spawned, which is the order of their
\* parents in the list.
C7_InsertionOrder ==
    [][LET old == psProjectileList
           new == psProjectileList'
           spawns == EventsOf(trace', "spawn")
       IN  /\ new = Kept(old, new) \o Added(old, new)
           /\ Called(trace', "proj_SendProjectile") =>
                  Added(old, new) = IF ret' = NULL THEN <<>> ELSE <<ret'>>
           /\ Called(trace', "proj_UpdateAll") =>
                  /\ IdsOf(globalProjectileStorage', Added(old, new))
                         = [i \in DOMAIN spawns |-> spawns[i][2]]
                  /\ \A i, j \in DOMAIN spawns :
                        i < j => PositionOf(globalProjectileStorage, old, spawns[i][3])
                                     < PositionOf(globalProjectileStorage, old, spawns[j][3])
      ]_vars

\* Two projectiles were fired one after the other, and a sweep has added the
\* children of both after them.
C7_Witness ==
    /\ Called(trace, "proj_UpdateAll")
    /\ Len(EventsOf(trace, "spawn")) = 2
    /\ Len(psProjectileList) = 4
    /\ IdsOf(globalProjectileStorage, psProjectileList) = <<1, 2, 3, 4>>

\* What an enumeration returns at its i-th call: the i-th projectile of the
\* list, and null after the last.
ListThenNull(i) == IF i <= Len(psProjectileList) THEN psProjectileList[i] ELSE NULL

\* C8: with no mutation of the registry since proj_GetFirst, the calls of
\* proj_GetFirst and proj_GetNext so far have returned the projectiles of the
\* list in list order, each once, and null after the last one (at once on an
\* empty list).
C8_Enumeration ==
    enumerated.active =>
        /\ Len(enumerated.got) = psProjectileNext
        /\ Len(enumerated.got) <= Len(psProjectileList) + 1
        /\ \A i \in DOMAIN enumerated.got : enumerated.got[i] = ListThenNull(i)
        /\ \A i, j \in DOMAIN psProjectileList :
              i # j => psProjectileList[i] # psProjectileList[j]
        /\ (Called(trace, "proj_GetFirst") \/ Called(trace, "proj_GetNext")) =>
              ret = enumerated.got[Len(enumerated.got)]

\* An enumeration of two projectiles has come to its end.
C8_Witness ==
    /\ enumerated.active
    /\ Called(trace, "proj_GetNext")
    /\ Len(psProjectileList) = 2
    /\ Len(enumerated.got) = 3
    /\ ret = NULL

\* The cell that holds the projectile with this id.
CellOf(storage, id) == CHOOSE s \in Slots : storage[s] # NoProjectile /\ storage[s].id = id

\* The audio code is told of the projectile before its storage is erased.
NotifiedThenErased(tr, id) ==
    \E i \in IndicesOf(tr, "audio_RemoveObj") : \E j \in IndicesOf(tr, "erase") :
        i < j /\ tr[i][2] = id /\ tr[j][2] = id

\* C9: proj_FreeAllProjectiles tells the audio code (audio_RemoveObj) of every
\* projectile of the list before any storage is erased, and leaves the list and
\* the storage empty and the cursor at the end of the list; proj_UpdateAll
\* tells the audio code of each projectile it reclaims before it erases it.
C9_AudioBeforeErase ==
    [][/\ Called(trace', "proj_FreeAllProjectiles") =>
              /\ IdsOf(globalProjectileStorage, psProjectileList)
                     = [i \in DOMAIN EventsOf(trace', "audio_RemoveObj") |->
                            EventsOf(trace', "audio_RemoveObj")[i][2]]
              /\ \A i \in IndicesOf(trace', "audio_RemoveObj") :
                     \A j \in IndicesOf(trace', "erase") : i < j
              /\ \A s \in Stored :
                     \E j \in IndicesOf(trace', "erase") :
                         trace'[j][2] = globalProjectileStorage[s].id
              /\ psProjectileList' = <<>>
              /\ \A s \in Slots : globalProjectileStorage'[s] = NoProjectile
              /\ psProjectileNext' = Len(psProjectileList') + 1
       /\ Called(trace', "proj_UpdateAll") =>
              /\ \A j \in IndicesOf(trace', "erase") :
                     \E i \in IndicesOf(trace', "audio_RemoveObj") :
                         i < j /\ trace'[i][2] = trace'[j][2]
              /\ \A s \in Stored :
                     globalProjectileStorage'[s] = NoProjectile =>
                         NotifiedThenErased(trace', globalProjectileStorage[s].id)
      ]_vars

\* proj_FreeAllProjectiles has freed two projectiles.
C9_Witness ==
    /\ Called(trace, "proj_FreeAllProjectiles")
    /\ Len(EventsOf(trace, "audio_RemoveObj")) = 2
    /\ Len(EventsOf(trace, "erase")) = 2

\* C4: a child spawned in the sweep of proj_UpdateAll is not updated in that
\* call and is not in the list that the sweep goes through; it is appended, and
\* so is in the list at the end, after every update of the sweep and after the
\* dead projectiles are reclaimed.
C4_ChildrenAfterSweep ==
    [][Called(trace', "proj_UpdateAll") =>
          \A k \in IndicesOf(trace', "spawn") :
              LET child == trace'[k][2]
              IN  /\ \A i \in IndicesOf(trace', "update") : trace'[i][2] # child
                  /\ \A i \in DOMAIN psProjectileList :
                         globalProjectileStorage[psProjectileList[i]].id # child
                  /\ \E a \in IndicesOf(trace', "append") :
                         /\ trace'[a][2] = child
                         /\ \A u \in IndicesOf(trace', "update") : u < a
                         /\ \A u \in IndicesOf(trace', "audio_RemoveObj") : u < a
                         /\ \A u \in IndicesOf(trace', "erase") : u < a
                  /\ \E i \in DOMAIN psProjectileList' :
                         globalProjectileStorage'[psProjectileList'[i]].id = child
      ]_vars

\* One call of proj_UpdateAll has spawned a child and reclaimed a dead projectile.
C4_Witness ==
    /\ Called(trace, "proj_UpdateAll")
    /\ IndicesOf(trace, "spawn") # {}
    /\ IndicesOf(trace, "erase") # {}
    /\ IndicesOf(trace, "append") # {}

\* The direct hits of a trace.
DirectHits(tr) == SelectSeq(tr, LAMBDA e : e[1] = "damage" /\ e[4] = "direct")

Exploded(state) == state \in {"PROJ_POSTIMPACT", "PROJ_INACTIVE"}

\* C3: the damage of the direct impact of a projectile is applied at most once
\* in its life, and never to an object of its damaged list.  A call of
\* proj_UpdateAll has at most one direct hit for a projectile; the object hit
\* was not in the damaged list the projectile came into the call with; the
\* projectile was still to impact and has exploded after the call; and a
\* projectile that has exploded stays so, so that it has no further direct hit.
C3_DirectDamageOnce ==
    [][/\ \A s \in Slots :
              (SameProjectile(s) /\ Exploded(globalProjectileStorage[s].state))
                  => Exploded(globalProjectileStorage'[s].state)
       /\ Called(trace', "proj_UpdateAll") =>
              \A i \in DOMAIN DirectHits(trace') :
                  LET hit == DirectHits(trace')[i]
                      s == CellOf(globalProjectileStorage, hit[2])
                  IN  /\ \A j \in DOMAIN DirectHits(trace') :
                             DirectHits(trace')[j][2] = hit[2] => j = i
                      /\ hit[3] \notin SeqToSet(globalProjectileStorage[s].psDamaged)
                      /\ ~Exploded(globalProjectileStorage[s].state)
                      /\ SameProjectile(s)
                      /\ Exploded(globalProjectileStorage'[s].state)
      ]_vars

\* A penetration child that has droid 2, still alive, in its damaged list has
\* gone past it and has hit the structure.
C3_Witness ==
    /\ Called(trace, "proj_UpdateAll")
    /\ ~objects[2].died
    /\ \E i \in DOMAIN DirectHits(trace) :
          /\ DirectHits(trace)[i][3] = 3
          /\ 2 \in SeqToSet(globalProjectileStorage[
                                CellOf(globalProjectileStorage, DirectHits(trace)[i][2])].psDamaged)

\* What the projectile in cell s, if any, adds to the damage that object o
\* expects from direct (or from indirect) fire.
Contribution(s, o, direct) ==
    LET p == globalProjectileStorage[s]
    IN  IF p # NoProjectile /\ p.psDest = o /\ proj_Direct(p.psWStats) = direct
        THEN p.expectedDamageCaused ELSE 0

ExpectedFromProjectiles(o, direct) == SumSeq([s \in Slots |-> Contribution(s, o, direct)])

\* C2: for every object, the damage it expects equals the sum of
\* expectedDamageCaused over the projectiles in existence that have it as
\* their destination, for direct and for indirect fire.
C2_ExpectedDamage ==
    \A o \in Objs :
        /\ objects[o].expectedDamageDirect = ExpectedFromProjectiles(o, TRUE)
        /\ objects[o].expectedDamageIndirect = ExpectedFromProjectiles(o, FALSE)

\* C6: a projectile whose died becomes nonzero in a call of proj_UpdateAll is
\* still in the list and in the storage at the end of that call: a projectile
\* that comes into the call with died = 0 is not reclaimed by it.
C6_DiedSeenForATick ==
    [][Called(trace', "proj_UpdateAll") =>
          \A s \in Stored :
              globalProjectileStorage[s].died = 0 =>
                  /\ SameProjectile(s)
                  /\ s \in SeqToSet(psProjectileList')
      ]_vars

\* The ids a projectile of the model can have.
Ids == 1 .. Cardinality(Slots)

\* The projectile with this id is stored, in this state.
InState(id, state) ==
    \E s \in Stored : /\ globalProjectileStorage[s].id = id
                      /\ globalProjectileStorage[s].state = state

\* The projectile with this id has been reclaimed, or was never made.
NotStored(id) == \A s \in Stored : globalProjectileStorage[s].id # id

Outcome(P, events) ==
    [projectiles |-> [i \in 1 .. Len(P.list) |-> P.w.st[P.list[i]]],
     objects |-> P.w.ob,
     events |-> events,
     tracker |-> P.w.trk,
     random |-> P.w.rnd]

\* C5: two independent runs given the same fire and update calls, the same
\* world and the same seed end every step with the same projectiles (position,
\* state and all), in the same order, and with the same damage done.
C5_TwoRunsAgree == Outcome(Prog, trace) = Outcome(twin, twin.w.tr)

\* Both runs have spawned two projectiles in one proj_UpdateAll, in cells that
\* differ from one run to the other.
C5_Witness ==
    /\ Called(trace, "proj_UpdateAll")
    /\ Cardinality(IndicesOf(trace, "append")) = 2
    /\ psProjectileList # twin.list
    /\ \E o \in Objs : objects[o].body < OriginalBody

\* The step is a proj_SendProjectile at the object o.
FiresAt(o) ==
    /\ Called(trace', "proj_SendProjectile")
    /\ \E e \in SeqToSet(EventsOf(trace', "fire")) : e[3] = o

\* The module's registry and the objects are as they were.
RegistryUnchanged ==
    UNCHANGED <<psProjectileList, globalProjectileStorage,
                projectileTrackerIDIncrement, objects>>

\* C11 as it is stated: a fire call at an object that is dead succeeds.
C11_DeadTargetIsAMiss ==
    [][\A o \in Objs : (FiresAt(o) /\ objects[o].died) => ret' # NULL]_vars

\* C11: a fire call at an object that is dead is rejected: it returns failure
\* and adds no projectile.  A projectile whose destination has died has, after
\* its next update, that object as destination no more, and the object expects
\* no damage from it.
C11_DeadTargetRejectedDeadDestDropped ==
    [][/\ \A o \in Objs :
              (FiresAt(o) /\ objects[o].died) => (ret' = NULL /\ RegistryUnchanged)
       /\ Called(trace', "proj_UpdateAll") =>
              \A s \in SeqToSet(psProjectileList) : \A o \in Objs :
                  (globalProjectileStorage[s].psDest = o /\ objects[o].died)
                      => /\ SameProjectile(s) => globalProjectileStorage'[s].psDest # o
                         /\ objects'[o].expectedDamageDirect
                                <= objects[o].expectedDamageDirect
                                       - (IF proj_Direct(globalProjectileStorage[s].psWStats)
                                          THEN globalProjectileStorage[s].expectedDamageCaused
                                          ELSE 0)
                         /\ objects'[o].expectedDamageIndirect
                                <= objects[o].expectedDamageIndirect
                                       - (IF proj_Direct(globalProjectileStorage[s].psWStats)
                                          THEN 0
                                          ELSE globalProjectileStorage[s].expectedDamageCaused)
      ]_vars

\* A projectile is in flight whose destination has died, and the object still
\* expects its damage: the next update drops the destination.
C11_Witness ==
    \E s \in Stored : /\ globalProjectileStorage[s].psDest # NULL
                      /\ objects[globalProjectileStorage[s].psDest].died
                      /\ globalProjectileStorage[s].state = "PROJ_INFLIGHT"
                      /\ globalProjectileStorage[s].expectedDamageCaused > 0

\* The step is a proj_SendProjectile with a weapon index past the table.
FiresInvalidWeapon(tr) ==
    /\ Called(tr, "proj_SendProjectile")
    /\ \E e \in SeqToSet(EventsOf(tr, "fire")) : e[2] >= NumWeaponStats

\* C12: a fire call with an invalid weapon stat index returns failure and
\* leaves the list, the storage, the tracker id counter and every object (its
\* expected damage with it) as they were.
C12_InvalidWeaponRejected ==
    [][FiresInvalidWeapon(trace') => (ret' = NULL /\ RegistryUnchanged)]_vars

\* A fire call with an invalid weapon index has been rejected while a
\* projectile fired before it is in the list.
C12_Witness ==
    /\ FiresInvalidWeapon(trace)
    /\ ret = NULL
    /\ psProjectileList # <<>>
    /\ projectileTrackerIDIncrement > 0

ProjectileStates == {"PROJ_INFLIGHT", "PROJ_IMPACT", "PROJ_POSTIMPACT", "PROJ_INACTIVE"}

\* Positions next to the map's two edges, outside it.
OffMapPositions == {-1, mapWidth}

\* The world with the projectile of cell s somewhere else, in some state.
WorldWith(s, pos, state) == [World EXCEPT !.st[s].pos = pos, !.st[s].state = state]

\* What PROJECTILE::update has made, in w, of the projectile in cell s that
\* was in this state: it is dead, in that state still, and nothing was damaged
\* or spawned.
OnlyMarkedDead(s, state, w) ==
    /\ w.st[s].died # 0
    /\ w.st[s].state = state
    /\ w.ret = NULL
    /\ w.trk = projectileTrackerIDIncrement
    /\ \A t \in Slots \ {s} : w.st[t] = globalProjectileStorage[t]
    /\ EventsOf(w.tr, "damage") = <<>>
    /\ \A o \in Objs : /\ w.ob[o].body = objects[o].body
                       /\ w.ob[o].died = objects[o].died

\* C13: the update of a projectile that is off the map marks it dead whatever
\* its state, and runs no state handler: the state is as it was, nothing is
\* damaged and no projectile is spawned.  The projectiles are those of the
\* list, as they are and as they would be in each state just outside the map.
C13_OffMapMarkedDead ==
    \A s \in SeqToSet(psProjectileList) :
        /\ ~worldOnMap(globalProjectileStorage[s].pos)
              => OnlyMarkedDead(s, globalProjectileStorage[s].state,
                                PROJECTILE_update(World, s))
        /\ \A pos \in OffMapPositions : \A state \in ProjectileStates :
              OnlyMarkedDead(s, state, PROJECTILE_update(WorldWith(s, pos, state), s))

\* A projectile in flight is off the map next to a live droid of the enemy, in
\* a tick that has not been updated yet.
C13_Witness ==
    /\ ~updated
    /\ \E s \in SeqToSet(psProjectileList) :
           /\ ~worldOnMap(globalProjectileStorage[s].pos)
           /\ globalProjectileStorage[s].state = "PROJ_INFLIGHT"
           /\ globalProjectileStorage[s].died = 0

\* A projectile fired by a direct weapon at a point, with no target object; it
\* is not a spawned one.
PointShot(p) ==
    /\ WeaponStats(p.psWStats).movementModel = "MM_DIRECT"
    /\ p.psDest = NULL
    /\ p.expectedDamageCaused = 0
    /\ p.psDamaged = <<>>

\* The distance flown d is at the end of the extended long range of p's weapon.
AtRangeEnd(p, d) ==
    d * 100 >= WeaponStats(p.psWStats).maxRange
                   * WeaponStats(p.psWStats).distanceExtensionFactor

\* The game ticks since the one the projectile was fired in.
TicksSinceFired(p) == (gameTime - 1 - p.born) \div TickLength

\* ceil(horizontal distance to the aim point / distance per tick).
TicksToAim(p) ==
    LET perTick == CDiv(WeaponStats(p.psWStats).flightSpeed * TickLength, GAME_TICKS_PER_SEC)
    IN  (iHypot(p.dst - p.src) + perTick - 1) \div perTick

\* The distance the movement of a direct projectile gives it at the game time.
DirectDistance(p) ==
    CDiv((gameTime - p.born) * WeaponStats(p.psWStats).flightSpeed, GAME_TICKS_PER_SEC)

\* C14 as it is stated: after the update of the tick that is
\* ceil(distance / distance per tick) ticks after the firing, a projectile
\* fired at a point away from the muzzle has ended its flight, at the aim
\* point: it is in flight no more.
C14_ImpactAtAimPoint ==
    updated =>
        \A s \in Stored :
            (/\ PointShot(globalProjectileStorage[s])
             /\ globalProjectileStorage[s].dst # globalProjectileStorage[s].src) =>
                (globalProjectileStorage[s].state = "PROJ_INFLIGHT"
                     => TicksSinceFired(globalProjectileStorage[s])
                            < TicksToAim(globalProjectileStorage[s]))

\* What proj_UpdateAll makes of the point shot p that is in flight and on the
\* map: q.  It flies on along its line, through the aim point too, or it is
\* inactive at once; without a hit of an object or of the terrain, it is
\* inactive exactly when its distance has reached the extended long range.
FliesToRangeEnd(p, q) ==
    /\ q.id = p.id
    /\ q.state \in {"PROJ_INFLIGHT", "PROJ_INACTIVE"}
    /\ q.state = "PROJ_INFLIGHT" =>
           /\ ~AtRangeEnd(p, DirectDistance(p))
           /\ q.pos = p.src + CDiv((p.dst - p.src) * DirectDistance(p),
                                   Max(iHypot(p.dst - p.src), 1))
    /\ AtRangeEnd(p, DirectDistance(p)) => q.state = "PROJ_INACTIVE"
    /\ (q.state = "PROJ_INACTIVE" /\ ~AtRangeEnd(p, DirectDistance(p)))
           => (q.psDest # NULL \/ q.pos >= TerrainWallX)

\* C14: a direct projectile fired at a point with no target object flies along
\* the line through its aim point until it hits an object or the terrain or
\* until the distance flown reaches long range * distanceExtensionFactor / 100;
\* the update in which that happens leaves it inactive (a weapon without splash
\* or periodical damage).
C14_DirectFliesToRangeEnd ==
    [][Called(trace', "proj_UpdateAll") =>
          \A s \in SeqToSet(psProjectileList) :
              (/\ PointShot(globalProjectileStorage[s])
               /\ globalProjectileStorage[s].state = "PROJ_INFLIGHT"
               /\ worldOnMap(globalProjectileStorage[s].pos))
                  => FliesToRangeEnd(globalProjectileStorage[s], globalProjectileStorage'[s])
      ]_vars

\* A projectile fired at a point is in flight on the map beyond its aim point.
C14_Witness ==
    /\ updated
    /\ \E s \in Stored :
           /\ PointShot(globalProjectileStorage[s])
           /\ globalProjectileStorage[s].state = "PROJ_INFLIGHT"
           /\ worldOnMap(globalProjectileStorage[s].pos)
           /\ Abs(globalProjectileStorage[s].pos - globalProjectileStorage[s].src)
                  > Abs(globalProjectileStorage[s].dst - globalProjectileStorage[s].src)

\* The projectile with this id, after the step.
ProjectileAfter(id) == globalProjectileStorage'[CellOf(globalProjectileStorage', id)]

\* The damage events of the radius sweeps of the step.
RadiusDamages == SeqToSet(SelectSeq(trace', LAMBDA e : e[1] = "damage" /\ e[4] = "radius"))

\* C15 as it is stated: no radius sweep damages an object allied with the
\* projectile's player.
C15_SweepSparesAllies ==
    [][Called(trace', "proj_UpdateAll") =>
          \A e \in RadiusDamages :
              ~aiCheckAlliances(objPlayer(e[3]), ProjectileAfter(e[2]).player)]_vars

\* C15: a radius sweep does not damage an object of the player of the
\* projectile's source when the weapon has WEAPON_FLAG_NO_FRIENDLY_FIRE and
\* the projectile still has its source.
C15_SweepSparesSourcesPlayerOnFlag ==
    [][Called(trace', "proj_UpdateAll") =>
          \A e \in RadiusDamages :
              ~(/\ ProjectileAfter(e[2]).psSource # NULL
                /\ objPlayer(ProjectileAfter(e[2]).psSource) = objPlayer(e[3])
                /\ WeaponStats(ProjectileAfter(e[2]).psWStats).noFriendlyFire)]_vars

\* The howitzer's shell has exploded within its radius of droid 1, which fired
\* it, and has damaged another object and not droid 1.
C15_Witness ==
    /\ Called(trace, "proj_UpdateAll")
    /\ \E e \in SeqToSet(EventsOf(trace, "damage")) :
           /\ e[4] = "radius"
           /\ e[3] # 1
           /\ \E s \in Stored :
                  /\ globalProjectileStorage[s].id = e[2]
                  /\ WeaponStats(globalProjectileStorage[s].psWStats).noFriendlyFire
                  /\ globalProjectileStorage[s].psSource = 1
                  /\ Abs(objects[1].pos - globalProjectileStorage[s].pos)
                         <= WeaponStats(globalProjectileStorage[s].psWStats).radius
    /\ objects[1].body = OriginalBody

(***************************************************************************)
(* C16: the velocities of an indirect shot.                                *)
(***************************************************************************)
\* The arguments of the function applied, and the distance (in thousandths
\* of a unit) by which the parabola x = vx * t, z = vz * t - g * t^2 / 2 of
\* the returned velocities misses (dx, dz) at the returned time t.
Arg(i) == trace[2][i]

MinAngleCall == Called(trace, "projCalcIndirectVelocities") /\ Arg(4) > 0

XMiss == Abs(ret.vx * ret.t - Arg(1) * GAME_TICKS_PER_SEC)

ZMiss ==
    Abs(ret.vz * ret.t - CDiv(ACC_GRAVITY * ret.t * ret.t, 2 * GAME_TICKS_PER_SEC)
        - Arg(2) * GAME_TICKS_PER_SEC)

\* The rounding tolerance: each velocity is the sum of at most two quotients
\* rounded towards zero, so the position after t ticks is off by less than
\* t thousandths horizontally and at most 2 * t thousandths vertically.
ThroughTarget == XMiss < Max(ret.t, 1) /\ ZMiss <= 2 * ret.t

CollisionCall == Called(trace, "collisionXYZ")

\* collisionXYZ with the two position samples swapped.
Swapped == collisionXYZ(Arg(2), Arg(1), Arg(3), Arg(4))

\* C17: collisionXYZ(v1, v2, shape, height) reports a collision exactly when
\* collisionXYZ(v2, v1, shape, height) reports one.
C17_CollisionSymmetric == CollisionCall => ((ret >= 0) = (Swapped >= 0))

\* C18: collisionXYZ returns -1 or a time t with 0 <= t < 1024.
C18_CollisionTimeInTick == CollisionCall => (ret = -1 \/ (0 <= ret /\ ret < 1024))

(***************************************************************************)
(* C19: the collision an in-flight update acts on.                         *)
(***************************************************************************)
\* The projectile of cell s as proj_InFlightFunc has moved it when the
\* collision scan starts.
MovedNow(s) ==
    MoveProjectile(World, [globalProjectileStorage[s] EXCEPT !.time = gameTime],
                   gameTime - globalProjectileStorage[s].born).p

\* The cells whose projectile the update of this tick finds in flight.
ToFly == IF updated THEN {}
         ELSE {s \in Stored : globalProjectileStorage[s].state = "PROJ_INFLIGHT"}

ScanOrder(p) == gridStartIterate(World, p.pos, PROJ_NEIGHBOUR_RANGE)

\* The collision time of the i-th object of the scan, or UINT32_MAX if the
\* object is passed over or not hit.
CandidateTime(p, i) ==
    LET o == ScanOrder(p)[i]
        collision == ObjectCollision(World, p, o)
    IN  IF ScanSkips(World, p, o) \/ collision < 0 THEN UINT32_MAX
        ELSE p.prevSpacetime.time + CDiv((p.time - p.prevSpacetime.time) * collision, 1024)

TerrainTime(p) ==
    LET t == map_LineIntersect(p.prevSpacetime.pos, p.prevSpacetime.z, p.pos, p.z,
                               p.time - p.prevSpacetime.time)
    IN  IF t = UINT32_MAX THEN UINT32_MAX ELSE p.prevSpacetime.time + t

\* The i-th object of the scan is hit, no object is hit earlier, and none
\* before it in the scan is hit at the same time.
FirstEarliest(p, i) ==
    /\ CandidateTime(p, i) # UINT32_MAX
    /\ \A j \in DOMAIN ScanOrder(p) : CandidateTime(p, j) >= CandidateTime(p, i)
    /\ \A j \in 1 .. (i - 1) : CandidateTime(p, j) > CandidateTime(p, i)

\* C19: the collision acted on is the earliest of the object candidates and
\* the terrain; of two objects hit at the same time the first in the scan
\* order wins, and an object wins over the terrain at equal time.
C19_EarliestCollisionWins ==
    \A s \in ToFly :
        LET p == MovedNow(s)
            closest == ClosestCollision(World, p)
        IN  /\ \A i \in DOMAIN ScanOrder(p) :
                  FirstEarliest(p, i) /\ CandidateTime(p, i) <= TerrainTime(p)
                      => closest = [time |-> CandidateTime(p, i), obj |-> ScanOrder(p)[i]]
            /\ (\A i \in DOMAIN ScanOrder(p) : CandidateTime(p, i) > TerrainTime(p))
                  => closest = [time |-> TerrainTime(p), obj |-> NULL]
            /\ (TerrainTime(p) = UINT32_MAX
                /\ \A i \in DOMAIN ScanOrder(p) : CandidateTime(p, i) = UINT32_MAX)
                  => closest.time = UINT32_MAX

\* Two objects of the scan are hit at the same earliest time.
C19_Witness ==
    \E s \in ToFly : \E i, j \in DOMAIN ScanOrder(MovedNow(s)) :
        /\ i < j /\ FirstEarliest(MovedNow(s), i)
        /\ CandidateTime(MovedNow(s), j) = CandidateTime(MovedNow(s), i)

(***************************************************************************)
(* C20: experience.                                                        *)
(***************************************************************************)
\* The gains of experience of the last operation: <<"experience", projectile,
\* droid that gains, object damaged, gain>>.
Gains == SeqToSet(EventsOf(trace, "experience"))

\* C20: no damage increases experience when the object damaged is a feature or
\* belongs to the player of the projectile's source.
C20_NoExperienceForFriendlyFire ==
    \A e \in Gains :
        e[5] > 0 => ~isFeature(e[4]) /\ objPlayer(e[4]) # objPlayer(e[3])

(***************************************************************************)
(* C21: dead objects are left alone.                                       *)
(***************************************************************************)
\* The object of the i-th event of tr was destroyed by an earlier event of tr.
DestroyedBefore(tr, i, o) == \E j \in 1 .. (i - 1) : tr[j] = <<"destroyed", o>>

\* C21: no damage handler is called on an object that was dead before the
\* operation or that an earlier damage of the same operation has destroyed:
\* within one proj_UpdateAll an object killed by an earlier projectile is not
\* hit, swept or burnt by a later one.
C21_DeadObjectsNotDamaged ==
    [][\A i \in DOMAIN trace' :
           trace'[i][1] = "damage"
               => /\ ~objects[trace'[i][3]].died
                  /\ ~DestroyedBefore(trace', i, trace'[i][3])]_vars

\* In one proj_UpdateAll an object is destroyed, and a projectile that had it
\* as its destination before is updated later and is still in play.
C21_Witness ==
    /\ Called(trace, "proj_UpdateAll")
    /\ \E i, j \in DOMAIN trace : \E s \in Stored :
           /\ i < j
           /\ trace[i][1] = "destroyed"
           /\ trace[j] = <<"update", globalProjectileStorage[s].id>>
           /\ \E k \in 1 .. (i - 1) :
                  /\ trace[k][1] = "damage" /\ trace[k][3] = trace[i][2]
                  /\ trace[k][2] # globalProjectileStorage[s].id
           /\ globalProjectileStorage[s].dst = objects[trace[i][2]].pos

(***************************************************************************)
(* C22: the expected damage after the impact.                              *)
(***************************************************************************)
\* What object o expects beyond what the projectiles in store contribute.
Unaccounted(o) ==
    <<objects[o].expectedDamageDirect - ExpectedFromProjectiles(o, TRUE),
      objects[o].expectedDamageIndirect - ExpectedFromProjectiles(o, FALSE)>>

\* The projectile of cell s is past its impact.
Impacted(s) == globalProjectileStorage[s].state \in {"PROJ_POSTIMPACT", "PROJ_INACTIVE"}

\* C22: after proj_UpdateAll every projectile that is past its impact has
\* expectedDamageCaused = 0, and what it contributed is gone from the objects'
\* expected damage: no object expects more, beyond the contributions of the
\* projectiles in store, than before the call.
C22_ImpactClearsExpectedDamage ==
    [][Called(trace', "proj_UpdateAll") =>
          /\ \A s \in Stored' : Impacted(s)' => globalProjectileStorage'[s].expectedDamageCaused = 0
          /\ \A o \in Objs : Unaccounted(o)' = Unaccounted(o)
      ]_vars

\* A projectile that this proj_UpdateAll has brought to its impact on an
\* object, which it damaged and still has as its destination.
C22_Witness ==
    /\ Called(trace, "proj_UpdateAll")
    /\ \E s \in Stored :
           /\ Impacted(s)
           /\ globalProjectileStorage[s].psDest # NULL
           /\ objGuessFutureDamage(globalProjectileStorage[s].psWStats,
                                   globalProjectileStorage[s].player,
                                   globalProjectileStorage[s].psDest) > 0
           /\ <<"damage", globalProjectileStorage[s].id, globalProjectileStorage[s].psDest,
                "direct">> \in SeqToSet(trace)

(***************************************************************************)
(* C23: the sweeps of an impact.                                           *)
(***************************************************************************)
\* The world in which the projectile of cell s is one of weapon n, come to
\* its impact.
AtImpact(s, n) == [World EXCEPT !.st[s].psWStats = n, !.st[s].state = "PROJ_IMPACT"]

\* The sweeps the weapon's radii call for, the EMP sweep first.
SweepsDue(id, n) ==
    (IF WeaponStats(n).empRadius # 0 THEN << <<"sweep", id, TRUE>> >> ELSE <<>>)
    \o (IF WeaponStats(n).radius # 0 THEN << <<"sweep", id, FALSE>> >> ELSE <<>>)

\* C23: when a projectile whose weapon has a nonzero splash radius or a
\* nonzero EMP radius impacts, the radius sweeps are performed, the EMP sweep
\* before the normal one, and the projectile goes to POSTIMPACT.
C23_ImpactSweeps ==
    \A s \in Stored : \A n \in 0 .. (NumWeaponStats - 1) :
        WeaponStats(n).radius # 0 \/ WeaponStats(n).empRadius # 0
            => LET w == proj_ImpactFunc(AtImpact(s, n), s)
               IN  /\ w.st[s].state = "PROJ_POSTIMPACT"
                   /\ EventsOf(w.tr, "sweep") = SweepsDue(w.st[s].id, n)

(***************************************************************************)
(* C24: the time of death.                                                 *)
(***************************************************************************)
\* The cells whose projectile the update of this tick finds inactive, on the map.
ToRetire ==
    IF updated THEN {}
    ELSE {s \in Stored : /\ globalProjectileStorage[s].state = "PROJ_INACTIVE"
                         /\ worldOnMap(globalProjectileStorage[s].pos)}

\* C24: when update handles a projectile in state INACTIVE, it sets died to
\* the game time of that update.
C24_DiedIsCurrentTick ==
    \A s \in ToRetire : PROJECTILE_update(World, s).st[s].died = gameTime

(***************************************************************************)
(* C25: the child of a penetration.                                        *)
(***************************************************************************)
\* The world in which the projectile of cell s is one of weapon n.
WorldAs(s, n) == [World EXCEPT !.st[s].psWStats = n]

\* The movement of proj_InFlightFunc for the projectile of cell s as one of
\* weapon n: the moved projectile and the distance travelled.
MovedAs(s, n) ==
    MoveProjectile(WorldAs(s, n), [WorldAs(s, n).st[s] EXCEPT !.time = gameTime],
                   gameTime - globalProjectileStorage[s].born)

ClosestAs(s, n) == ClosestCollision(WorldAs(s, n), MovedAs(s, n).p)

\* The collision object of this update is a droid.
HitsDroid(s, n) ==
    /\ ClosestAs(s, n).time # UINT32_MAX
    /\ ClosestAs(s, n).obj # NULL
    /\ objType(ClosestAs(s, n).obj) = "OBJ_DROID"

\* The weapons a projectile in flight is taken to be of: its own and the
\* penetrating ones.
FlownAs(s) == {globalProjectileStorage[s].psWStats, 1, LongGun}

CellsOf(w) == {c \in Slots : w.st[c] # NoProjectile}

\* What every in-flight update does with its child, whatever the condition
\* of the spawn: no child without a droid hit, at most one child, and the
\* child is stored but the update leaves the list alone (proj_UpdateAll
\* appends the children after its loop).
ChildRules(s, n, w) ==
    /\ w.ret # NULL => HitsDroid(s, n) /\ WeaponStats(n).penetrate
    /\ CellsOf(w) = Stored \cup (IF w.ret = NULL THEN {} ELSE {w.ret})
    /\ w.ret # NULL => w.ret \notin Stored /\ w.ret \notin SeqToSet(psProjectileList)

ParentAs(s, n) == UpdateDropDead(WorldAs(s, n), s).st[s]

\* The child the in-flight update of cell s as one of weapon n creates.
ChildAs(s, n) ==
    LET w == proj_InFlightFunc(UpdateDropDead(WorldAs(s, n), s), s)
    IN  [spawned |-> w.ret # NULL,
         child |-> IF w.ret = NULL THEN NoProjectile ELSE w.st[w.ret],
         parent |-> w.st[s]]

\* The droids on the damaged list of the projectile of cell s that its flight
\* of this tick passes through.
PassedAgain(s) ==
    {o \in SeqToSet(globalProjectileStorage[s].psDamaged) :
        /\ ~isDead(World, o)
        /\ ObjectCollision(World, MovedNow(s), o) >= 0}

\* C26: a penetration child is created with no destination, with the parent's
\* born time and source object and with the parent's damaged list, which holds
\* the droid just struck; no projectile collides with an object of its
\* damaged list.
C26_ChildInheritsDamagedList ==
    /\ \A s \in ToFly : \A n \in FlownAs(s) :
          ChildAs(s, n).spawned =>
              /\ ChildAs(s, n).child.psDest = NULL
              /\ ChildAs(s, n).child.born = ParentAs(s, n).born
              /\ ChildAs(s, n).child.psSource = ParentAs(s, n).psSource
              /\ ChildAs(s, n).child.psDamaged
                    = Append(ParentAs(s, n).psDamaged, ClosestAs(s, n).obj)
              /\ ChildAs(s, n).child.psDamaged = ChildAs(s, n).parent.psDamaged
    /\ \A s \in ToFly :
          ClosestCollision(World, MovedNow(s)).obj
              \notin SeqToSet(globalProjectileStorage[s].psDamaged)

\* A child in flight passes through the droid that its parent struck, and a
\* parent with an entry on its list spawns a child.
C26_Witness ==
    /\ \E s \in ToFly : PassedAgain(s) # {}
    /\ \E s \in ToFly : \E n \in FlownAs(s) :
          ChildAs(s, n).spawned /\ ParentAs(s, n).psDamaged # <<>>
(***************************************************************************)
(* C27: the end of the range.                                              *)
(***************************************************************************)
\* The world in which PROJECTILE::update calls proj_InFlightFunc for the
\* projectile of cell s, taken as one of weapon n that is aimed at object o
\* and has no expected damage registered.
AimedAs(s, n, o) ==
    UpdateDropDead([World EXCEPT !.st[s].psWStats = n, !.st[s].psDest = o,
                                 !.st[s].expectedDamageCaused = 0], s)

\* The movement of proj_InFlightFunc for the projectile of cell s in world w.
FlightIn(w, s) == MoveProjectile(w, [w.st[s] EXCEPT !.time = gameTime], gameTime - w.st[s].born)

\* The in-flight update of cell s in world w finds no collision.
NoCollision(w, s) == ClosestCollision(w, FlightIn(w, s).p).time = UINT32_MAX

\* The distance travelled times 100 is at least the long range times the
\* weapon's distanceExtensionFactor.
RangeEndIn(w, s) ==
    FlightIn(w, s).currentDistance * 100
        >= proj_GetLongRange(w.st[s].psWStats, w.st[s].player)
             * WeaponStats(w.st[s].psWStats).distanceExtensionFactor

\* What world w, left by proj_InFlightFunc, holds of the projectile of cell s.
FlownIn(w, s) ==
    [state |-> w.st[s].state, psDest |-> w.st[s].psDest, spawned |-> w.ret # NULL]

\* The in-flight update of cell s in world w, if it finds no collision, ends
\* in a miss at the range end and goes on below it.
RangeEndIsMissIn(w, s) ==
    NoCollision(w, s) =>
        IF RangeEndIn(w, s)
        THEN FlownIn(proj_InFlightFunc(w, s), s)
                = [state |-> "PROJ_IMPACT", psDest |-> NULL, spawned |-> FALSE]
        ELSE FlownIn(proj_InFlightFunc(w, s), s)
                = [state |-> "PROJ_INFLIGHT", psDest |-> w.st[s].psDest, spawned |-> FALSE]

\* C27: an in-flight update without a collision whose distance travelled times
\* 100 is at least longRange times distanceExtensionFactor sets the
\* destination to none and goes to IMPACT; below that distance and without a
\* collision the projectile stays IN_FLIGHT and keeps its destination.
C27_RangeEndIsMiss ==
    \A s \in ToFly : \A n \in FlownAs(s) : \A o \in Objs \cup {NULL} :
        RangeEndIsMissIn(AimedAs(s, n, o), s)

\* A flight without a collision ends exactly at the extended range while the
\* destination is alive.
C27_Witness ==
    \E s \in ToFly : \E n \in FlownAs(s) : \E o \in Objs :
        /\ NoCollision(AimedAs(s, n, o), s)
        /\ FlightIn(AimedAs(s, n, o), s).currentDistance * 100
             = proj_GetLongRange(n, 0) * WeaponStats(n).distanceExtensionFactor
        /\ AimedAs(s, n, o).st[s].psDest = o

(***************************************************************************)
(* C28: the impact of a weapon without splash and periodical damage.       *)
(***************************************************************************)
\* The weapon has neither a splash radius nor a periodical damage time.
Plain(n) == WeaponStats(n).radius = 0 /\ WeaponStats(n).periodicalDamageTime = 0

\* The update of this tick runs proj_InFlightFunc for the projectile of cell
\* s as one of weapon n, and the projectile goes to IMPACT in it.
GoesToImpact(s, n) ==
    /\ worldOnMap(globalProjectileStorage[s].pos)
    /\ proj_InFlightFunc(UpdateDropDead(WorldAs(s, n), s), s).st[s].state = "PROJ_IMPACT"

\* The radius sweeps and the splash and periodical damage of projectile id in
\* the events tr.
AreaEffects(tr, id) ==
    {i \in DOMAIN tr :
        /\ tr[i][1] \in {"sweep", "damage"}
        /\ tr[i][2] = id
        /\ tr[i][1] = "damage" => tr[i][4] \in {"radius", "periodical"}}

\* World w, left by the update of cell s, has the projectile INACTIVE and no
\* area effect of it among its events.
EndsInactive(w, s) ==
    /\ w.st[s].state = "PROJ_INACTIVE"
    /\ AreaEffects(w.tr, globalProjectileStorage[s].id) = {}

\* C28: when a projectile goes to IMPACT and its weapon has neither a splash
\* radius nor a periodical damage time, it is INACTIVE at the end of the same
\* call of update, and the call performs no radius sweep and applies no
\* splash or periodical damage.
C28_PlainImpactEndsInactive ==
    \A s \in ToFly : \A n \in FlownAs(s) \cup EmpWeapons :
        Plain(n) /\ GoesToImpact(s, n) => EndsInactive(PROJECTILE_update(WorldAs(s, n), s), s)

\* A projectile of a weapon without splash and periodical damage hits an
\* object in this update, and would do so as the EMP cannon too.
C28_Witness ==
    \E s \in ToFly : \E n \in EmpWeapons :
        /\ Plain(globalProjectileStorage[s].psWStats)
        /\ GoesToImpact(s, globalProjectileStorage[s].psWStats)
        /\ ClosestAs(s, globalProjectileStorage[s].psWStats).obj # NULL
        /\ Plain(n) /\ GoesToImpact(s, n)

(***************************************************************************)
(* C29: the post-impact phase.                                             *)
(***************************************************************************)
\* The cells whose projectile the update of this tick finds in POSTIMPACT.
ToBurn == IF updated THEN {}
          ELSE {s \in Stored : /\ globalProjectileStorage[s].state = "PROJ_POSTIMPACT"
                               /\ worldOnMap(globalProjectileStorage[s].pos)}

\* The weapons a projectile past its impact is taken to be of: its own and
\* the ones with a splash radius or a periodical damage time.
BurntAs(s) == {globalProjectileStorage[s].psWStats} \cup {n \in 0 .. (NumWeaponStats - 1) : ~Plain(n)}

\* The age of the projectile of cell s exceeds both radiusLife and the
\* periodical damage time of weapon n.
Expired(s, n) ==
    /\ gameTime - globalProjectileStorage[s].born > WeaponStats(n).radiusLife
    /\ gameTime - globalProjectileStorage[s].born > WeaponStats(n).periodicalDamageTime

\* The objects that the damage events of projectile id in tr name, in order.
DamagedBy(tr, id, kinds) ==
    [i \in DOMAIN SelectSeq(tr, LAMBDA e : e[1] = "damage" /\ e[2] = id /\ e[4] \in kinds) |->
        SelectSeq(tr, LAMBDA e : e[1] = "damage" /\ e[2] = id /\ e[4] \in kinds)[i][3]]

\* The objects in the fire of the projectile of cell s as one of weapon n.
InFire(s, n) ==
    SelectSeq(gridStartIterate(World, globalProjectileStorage[s].pos,
                               WeaponStats(n).periodicalDamageRadius),
              LAMBDA o : ~PeriodicalSkips(World, globalProjectileStorage[s], o))

\* What an update leaves of a projectile in POSTIMPACT: its state and the
\* objects it has damaged, with the kind of the damage.
Burnt(s, n) ==
    [state |-> PROJECTILE_update(WorldAs(s, n), s).st[s].state,
     periodical |-> DamagedBy(PROJECTILE_update(WorldAs(s, n), s).tr,
                              globalProjectileStorage[s].id, {"periodical"}),
     other |-> DamagedBy(PROJECTILE_update(WorldAs(s, n), s).tr,
                         globalProjectileStorage[s].id, {"direct", "radius"})]

\* C29 as stated: a projectile in POSTIMPACT stays in POSTIMPACT and applies
\* the periodical damage in every update while its age is within radiusLife
\* or within the periodical damage time; at the first update where the age
\* exceeds both it goes to INACTIVE and applies no damage.
C29_PostImpactBurnsUntilExpired ==
    \A s \in ToBurn : \A n \in BurntAs(s) :
        Burnt(s, n) = IF Expired(s, n)
                      THEN [state |-> "PROJ_INACTIVE", periodical |-> <<>>, other |-> <<>>]
                      ELSE [state |-> "PROJ_POSTIMPACT", periodical |-> InFire(s, n),
                            other |-> <<>>]

\* C29: a projectile in POSTIMPACT stays in POSTIMPACT while its age is
\* within radiusLife or within the periodical damage time, and in each of
\* these updates applies the periodical damage if the periodical damage time
\* is positive, and no damage if it is zero; at the first update where the
\* age exceeds both it goes to INACTIVE and applies no damage.
C29_PostImpactBurnsIfPeriodical ==
    \A s \in ToBurn : \A n \in BurntAs(s) :
        Burnt(s, n) = IF Expired(s, n)
                      THEN [state |-> "PROJ_INACTIVE", periodical |-> <<>>, other |-> <<>>]
                      ELSE [state |-> "PROJ_POSTIMPACT",
                            periodical |-> IF WeaponStats(n).periodicalDamageTime > 0
                                           THEN InFire(s, n) ELSE <<>>,
                            other |-> <<>>]

\* A projectile in POSTIMPACT with an object in its fire whose age is within
\* its periodical damage time, and within the radiusLife of a weapon without
\* periodical damage.
C29_Witness ==
    \E s \in ToBurn : \E n \in BurntAs(s) :
        /\ ~Expired(s, globalProjectileStorage[s].psWStats)
        /\ WeaponStats(globalProjectileStorage[s].psWStats).periodicalDamageTime > 0
        /\ InFire(s, globalProjectileStorage[s].psWStats) # <<>>
        /\ WeaponStats(n).periodicalDamageTime = 0
        /\ ~Expired(s, n)
        /\ InFire(s, n) # <<>>

(***************************************************************************)
(* C30: the radius sweep.                                                  *)
(***************************************************************************)
\* The sweeps that proj_ImpactFunc can call for weapon n: <<n, empRadius>>.
SweepKinds ==
    {k \in (0 .. (NumWeaponStats - 1)) \X BOOLEAN :
        IF k[2] THEN (/\ WeaponStats(k[1]).radius # 0 /\ WeaponStats(k[1]).empRadius # 0
                      /\ WeaponStats(k[1]).weaponSubClass = "WSC_EMP")
        ELSE WeaponStats(k[1]).radius # 0}

\* The world in which the projectile of cell s, taken as one of weapon n, has
\* impacted with o as its destination.
ImpactedAs(s, n, o) == [World EXCEPT !.st[s].psWStats = n, !.st[s].psDest = o]

\* The centre of the sweeps of proj_ImpactFunc: the droid hit, else the
\* position of the projectile.
SweepCentre(s, o) ==
    IF o # NULL /\ objType(o) = "OBJ_DROID"
    THEN [pos |-> objects[o].pos, z |-> 0]
    ELSE [pos |-> globalProjectileStorage[s].pos, z |-> globalProjectileStorage[s].z]

SweepRadius(k) == IF k[2] THEN WeaponStats(k[1]).empRadius ELSE WeaponStats(k[1]).radius

\* The objects the spatial query of the sweep returns.
SweepQuery(s, k, o) == gridStartIterate(World, SweepCentre(s, o).pos, SweepRadius(k))

\* The objects that the claim exempts from the sweep of the projectile of
\* cell s as one of weapon k[1] with destination o.
Exempt(s, k, o, c) ==
    \/ c = o
    \/ objects[c].died
    \/ (objType(c) = "OBJ_FEATURE" /\ ~objDamageable(c))
    \/ (IF objType(c) = "OBJ_DROID" /\ isFlying(c)
        THEN ~WeaponStats(k[1]).shootInAir ELSE ~WeaponStats(k[1]).shootOnGround)
    \/ (/\ WeaponStats(k[1]).noFriendlyFire
        /\ globalProjectileStorage[s].psSource # NULL
        /\ objPlayer(c) = objPlayer(globalProjectileStorage[s].psSource))

\* Object c of the query is within the radius: a droid is tested against the
\* sphere, a structure or feature is within it by the query.
WithinRadius(s, k, o, c) ==
    objType(c) = "OBJ_DROID" =>
        Vector3i_InSphere(objects[c].pos, SweepCentre(s, o).pos, SweepCentre(s, o).z,
                          SweepRadius(k))

\* The objects that the sweep damages, in the order of the damage.
Swept(s, k, o) ==
    DamagedBy(proj_radiusSweep(ImpactedAs(s, k[1], o), s, SweepCentre(s, o).pos,
                               SweepCentre(s, o).z, k[2]).tr,
              globalProjectileStorage[s].id, {"direct", "radius", "periodical"})

Fireproof(player, o) ==
    \/ objects[o].died
    \/ aiCheckAlliances(player, objPlayer(o))
    \/ (objType(o) = "OBJ_FEATURE" /\ ~objDamageable(o))
    \/ (objType(o) = "OBJ_DROID" /\ isVtol(o))

\* The objects that proj_checkPeriodicalDamage damages for the projectile of
\* cell s taken as one of the incendiary weapon.
BurntNow(s) ==
    SeqToSet(DamagedBy(proj_checkPeriodicalDamage(WorldAs(s, 2), s).tr,
                       globalProjectileStorage[s].id, {"direct", "radius", "periodical"}))

LasSatAs(s) == UpdateDropDead(WorldAs(s, LasSat), s)

\* The projectile of cell s is younger than 4 seconds of game time.
Young(s) ==
    /\ gameTime - globalProjectileStorage[s].born >= 0
    /\ gameTime - globalProjectileStorage[s].born < 4 * GAME_TICKS_PER_SEC

\* What world w holds of the flight of the projectile of cell s: the
\* projectile, the objects, the events and the child.
FlightRecord(w, s) ==
    [state |-> w.st[s].state,
     pos |-> w.st[s].pos,
     z |-> w.st[s].z,
     psDest |-> w.st[s].psDest,
     psDamaged |-> w.st[s].psDamaged,
     ob |-> w.ob,
     tr |-> w.tr,
     spawned |-> w.ret # NULL]

\* What the flight of the Las-Sat strike of cell s leaves in a multiplayer
\* game (mp) or a single player game: the projectile, the objects, the events
\* and the child.
LasSatFlown(mp, s) == FlightRecord(InFlightIn(mp, LasSatAs(s), s), s)

\* The same of a Las-Sat strike that is inert.
LasSatInert(s) ==
    [FlightRecord(LasSatAs(s), s) EXCEPT !.state = "PROJ_INFLIGHT", !.spawned = FALSE]

\* The same of a Las-Sat strike that moves and looks for a collision.
LasSatActive(s) == FlightRecord(InFlightMoved(LasSatAs(s), s, FlightIn(LasSatAs(s), s)), s)

FlownWorld(s, n) == proj_InFlightFunc(UpdateDropDead(WorldAs(s, n), s), s)

\* In world w the in-flight update of cell s has ended in a hit on an object.
HitsObject(w, s) == w.st[s].state = "PROJ_IMPACT" /\ w.st[s].psDest # NULL

\* The struck object of cell s is destroyed in world w.
TargetDestroyed(w, s) == w.ob[w.st[s].psDest].died

\* The damaged list was `before`; hit is the world after the damage of the
\* direct hit, after the world after proj_ImpactFunc.
Recorded(s, target, before, hit, after) ==
    /\ hit.st[s].psDamaged = IF hit.rel >= 0 THEN Append(before, target) ELSE before
    /\ (hit.rel >= 0) = ~hit.ob[target].died
    /\ after.st[s].psDamaged = hit.st[s].psDamaged

RecordedIn(w, s) ==
    HitsObject(w, s) =>
        Recorded(s, w.st[s].psDest, w.st[s].psDamaged, ImpactDirectHit(w, s),
                 proj_ImpactFunc(w, s))

DestroyedIn(w, s) == HitsObject(w, s) /\ TargetDestroyed(ImpactDirectHit(w, s), s)

SurvivesIn(w, s) == HitsObject(w, s) /\ ~TargetDestroyed(ImpactDirectHit(w, s), s)

Damages == {WeaponStats(n).damage : n \in 0 .. (NumWeaponStats - 1)}

\* The projectile of cell s when update has dropped its dead objects.
Shooter(s) == UpdateDropDead(World, s).st[s]

\* A damage by projectile p is eligible for experience.
Eligible(p) ==
    /\ p.psSource # NULL
    /\ ~(p.psDest # NULL /\ objType(p.psDest) = "OBJ_FEATURE")
    /\ ~(p.psDest # NULL /\ objPlayer(p.psSource) = objPlayer(p.psDest))

\* The increments of kill counters in the events tr: the droids, in order.
Kills(tr) == [i \in DOMAIN EventsOf(tr, "kill") |-> EventsOf(tr, "kill")[i][3]]

\* The increments that the claim wants for a damage by projectile p that has
\* destroyed its object or not.
KillsDue(p, destroyed) ==
    IF destroyed /\ Eligible(p) /\ objType(p.psSource) = "OBJ_DROID"
    THEN IF hasCommander(p.psSource) THEN <<p.psSource, psCommander>> ELSE <<p.psSource>>
    ELSE <<>>

\* w is the world after objectDamage on object o for projectile p.
KillsCounted(w, p, o) ==
    /\ (w.rel < 0) = (w.ob[o].died)
    /\ Kills(w.tr) = KillsDue(p, w.rel < 0)

QualityCall == Called(trace, "qualityFactor")

\* C35: qualityFactor returns a value r with 32768 <= r <= 131072 for all
\* powers and points of the attacker and the victim, those included for which
\* 65536 times the ratio of victim to attacker does not fit in 32 bits.
C35_QualityFactorInRange == QualityCall => (ret >= 32768 /\ ret <= 131072)

\* qualityFactor has returned for a victim of 65536 times the power of the
\* attacker or more: the quotient has lost its high bits.
C35_Witness ==
    /\ QualityCall
    /\ Arg(1) # 0 /\ Arg(2) # 0
    /\ Arg(3) \div Arg(1) >= 65536
    /\ ret = (65536 \div 2 + ClippedRatio(Arg(4), Arg(2), 65536 \div 2, 65536 * 2)) \div 2

(***************************************************************************)
(* C36: IMPACT is only passed through.                                     *)
(***************************************************************************)
\* C36: no stored projectile is in state IMPACT between the operations; the
\* update of a stored projectile does not end in IMPACT, and the impact
\* handler leaves a projectile of any weapon in POSTIMPACT or INACTIVE.
C36_NeverLeftInImpact ==
    /\ \A s \in Stored : globalProjectileStorage[s].state # "PROJ_IMPACT"
    /\ updated \/ \A s \in Stored :
                      PROJECTILE_update(World, s).st[s].state # "PROJ_IMPACT"
    /\ \A s \in Stored : \A n \in 0 .. (NumWeaponStats - 1) :
          proj_ImpactFunc(AtImpact(s, n), s).st[s].state
              \in {"PROJ_POSTIMPACT", "PROJ_INACTIVE"}

\* The update of a projectile in flight passes through IMPACT: the flight
\* ends in a hit, and the projectile is left in POSTIMPACT.
C36_Witness ==
    \E s \in ToFly :
        /\ worldOnMap(globalProjectileStorage[s].pos)
        /\ HitsObject(FlownWorld(s, globalProjectileStorage[s].psWStats), s)
        /\ PROJECTILE_update(World, s).st[s].state = "PROJ_POSTIMPACT"

(***************************************************************************)
(* C37: the first/next cursor.                                             *)
(***************************************************************************)
\* C37: after any sequence of operations the first/next cursor designates a
\* position inside the current list, an element or the end, so that the next
\* proj_GetNext returns a projectile of the list or null.
C37_CursorInsideList == psProjectileNext \in 1 .. (Len(psProjectileList) + 1)

ScanWorld(s, n) == UpdateDropDead(WorldAs(s, n), s)

\* The object the scan loop selects for the moved projectile p, or NULL.
ScanSelects(w, p) ==
    CollisionScan(w, p, gridStartIterate(w, p.pos, PROJ_NEIGHBOUR_RANGE),
                  [time |-> UINT32_MAX, obj |-> NULL]).obj

OnGround(o) ==
    \/ objType(o) \in {"OBJ_STRUCTURE", "OBJ_FEATURE"}
    \/ (objType(o) = "OBJ_DROID" /\ ~isFlying(o))

\* Object o may be selected by the scan for projectile p in world w.
Selectable(w, p, o) ==
    /\ \A i \in DOMAIN p.psDamaged : p.psDamaged[i] # o
    /\ ~w.ob[o].died
    /\ objType(o) = "OBJ_FEATURE" => objDamageable(o)
    /\ aiCheckAlliances(objPlayer(o), p.player) => o = p.psDest
    /\ OnGround(o) => WeaponStats(p.psWStats).shootOnGround

SelectedIn(w, s) == ScanSelects(w, FlightIn(w, s).p)

SelectableIn(w, s, o) == o = NULL \/ Selectable(w, FlightIn(w, s).p, o)

Crosses(w, p, o) == ObjectCollision(w, p, o) >= 0

CrossesIn(w, s, o) == Crosses(w, FlightIn(w, s).p, o)

BeforeFlight(s) == UpdateDropDead(World, s)

\* The closest collision the in-flight update of cell s finds in world w.
ClosestIn(w, s) == ClosestCollision(w, FlightIn(w, s).p)

\* The expected damage registered on object o in world w for weapon n.
ExpectedOn(w, o, n) ==
    IF proj_Direct(n) THEN w.ob[o].expectedDamageDirect ELSE w.ob[o].expectedDamageIndirect

\* The share of projectile p in the expected damage of object o.
ShareOf(p, o) == IF p.psDest = o THEN p.expectedDamageCaused ELSE 0

TickWindow == (gameTime - deltaGameTime + 1) .. gameTime

\* The in-flight update of cell s took world before to world after and found
\* the collision closest.
HitApplied(s, before, closest, after) ==
    /\ after.st[s].psDest = closest.obj
    /\ after.st[s].expectedDamageCaused = before.st[s].expectedDamageCaused
    /\ \A o \in Objs :
           ExpectedOn(after, o, before.st[s].psWStats)
               = ExpectedOn(before, o, before.st[s].psWStats)
                 - ShareOf(before.st[s], o) + ShareOf(after.st[s], o)
    /\ after.st[s].time \in TickWindow
    /\ closest.time \in TickWindow => after.st[s].time = closest.time
    /\ closest.time < gameTime - deltaGameTime + 1
           => after.st[s].time = gameTime - deltaGameTime + 1
    /\ after.st[s].time # after.st[s].prevSpacetime.time
    /\ after.st[s].state = "PROJ_IMPACT"

HitAppliedIn(w, s) ==
    ClosestIn(w, s).time # UINT32_MAX
        => HitApplied(s, w, ClosestIn(w, s), proj_InFlightFunc(w, s))

\* C40: an in-flight update that finds a collision leaves the projectile with
\* the struck object as destination (none for the terrain), its expected
\* damage taken off the old destination and put on the new one, its time the
\* collision instant brought into the tick's window and different from the
\* time of its previous sample, and its state IMPACT.
C40_CollisionRetargets == \A s \in ToFly : HitAppliedIn(BeforeFlight(s), s)

\* An in-flight update that strikes an object other than the projectile's
\* destination, on which the projectile has expected damage registered, at an
\* instant before the tick's window.
C40_Witness ==
    \E s \in ToFly :
        /\ ClosestIn(BeforeFlight(s), s).time < gameTime - deltaGameTime + 1
        /\ ClosestIn(BeforeFlight(s), s).obj # NULL
        /\ BeforeFlight(s).st[s].psDest \notin {NULL, ClosestIn(BeforeFlight(s), s).obj}
        /\ BeforeFlight(s).st[s].expectedDamageCaused > 0
        /\ proj_InFlightFunc(BeforeFlight(s), s).st[s].state = "PROJ_IMPACT"
====
